---- MODULE Spec2Model ----
(***************************************************************************)
(* XMSS (RFC 8391, XMSS-SHA2_*_256) key generation, signing, verification, *)
(* export/import and the Merkle traversal engine of CryBtoS/xmss.          *)
(*                                                                         *)
(* Hash outputs are symbolic terms (ideal, injective hashes).  A term is a *)
(* tuple whose first element names its constructor.  Byte strings are      *)
(* sequences of runs of concrete bytes and of bytes of n-byte values.      *)
(***************************************************************************)
EXTENDS Integers, Sequences, FiniteSets, TLC

(***************************************************************************)
(* Bounds of the model.                                                    *)
(***************************************************************************)
MaxH == 3
MaxOver == 1
MaxCpu == 3
MaxCalls == 3
MaxWlen == 9

Heights == 1..MaxH
Messages == {"m1", "m2"}
Slots == {1, 2}
LayerTrees == {<<1, 0>>, <<0, 1>>}
ParamHeights == {0, 1}
IOHeights == [s \in Slots |-> IF s = 1 THEN {1, 2} ELSE {1}]
UserSeeds == [s \in Slots |-> <<"in", IF s = 1 THEN "seedA" ELSE "seedB">>]

(***************************************************************************)
(* Program constants.                                                      *)
(***************************************************************************)
n == 32
w == 16
wlen == 67

adrLayer == 0
adrTree == 1
adrType == 3
adrOTS == 4
adrLtree == 4
adrChain == 5
adrHeight == 5
adrHash == 6
adrIndex == 6
adrKM == 7

\* math.MaxUint32, the value low() returns for a finished stack.  It is only
\* ever compared with node heights (below 32); the largest integer of the
\* model checker stands for it.
MaxUint32 == 2147483647
Pow2(k) == 2 ^ k
Shr(x, k) == x \div Pow2(k)
\* x ^ (1 << k)
XorPow(x, k) == IF Shr(x, k) % 2 = 1 THEN x - Pow2(k) ELSE x + Pow2(k)

(***************************************************************************)
(* Byte strings.  An item is <<"b", v, k, e>>, k bytes of value v, or      *)
(* <<"s", t, lo, hi, e>>, bytes lo..hi-1 of the value t; e is the offset   *)
(* at which the item ends in its string.  Adjacent items that continue one *)
(* another are always merged, so equal byte strings are equal sequences.   *)
(***************************************************************************)
ItemLen(it) == IF it[1] = "b" THEN it[3] ELSE it[4] - it[3]
ItemEnd(it) == it[Len(it)]

\* len(b)
BLen(b) == IF b = <<>> THEN 0 ELSE ItemEnd(b[Len(b)])

Shift(it, d) ==
    IF it[1] = "b" THEN <<"b", it[2], it[3], it[4] + d>>
    ELSE <<"s", it[2], it[3], it[4], it[5] + d>>

ShiftAll(b, d) == IF d = 0 THEN b ELSE [j \in 1..Len(b) |-> Shift(b[j], d)] \o <<>>

\* item y continues item x, and the item the two make
Continues(x, y) ==
    \/ x[1] = "b" /\ y[1] = "b" /\ x[2] = y[2]
    \/ x[1] = "s" /\ y[1] = "s" /\ x[4] = y[3] /\ x[2] = y[2]
Merge(x, y) ==
    IF x[1] = "b" THEN <<"b", x[2], x[3] + y[3], x[4] + y[3]>>
    ELSE <<"s", x[2], x[3], y[4], x[5] + (y[4] - y[3])>>

\* a ++ b
Cat(a, b) ==
    IF a = <<>> THEN b
    ELSE IF b = <<>> THEN a
    ELSE IF Continues(a[Len(a)], b[1])
    THEN SubSeq(a, 1, Len(a) - 1) \o <<Merge(a[Len(a)], b[1])>>
             \o ShiftAll(Tail(b), BLen(a))
    ELSE a \o ShiftAll(b, BLen(a))

\* the index in lo..hi of the item that holds byte k (item hi ends after k)
RECURSIVE Seek(_, _, _, _)
Seek(b, lo, hi, k) ==
    IF lo >= hi THEN lo
    ELSE LET mid == (lo + hi) \div 2
         IN IF ItemEnd(b[mid]) > k THEN Seek(b, lo, mid, k) ELSE Seek(b, mid + 1, hi, k)

\* item it without its first skip bytes, and its first keep bytes ending at e
ItemDrop(it, skip) ==
    IF it[1] = "b" THEN <<"b", it[2], it[3] - skip, it[4]>>
    ELSE <<"s", it[2], it[3] + skip, it[4], it[5]>>
ItemTake(it, keep, e) ==
    IF it[1] = "b" THEN <<"b", it[2], keep, e>>
    ELSE <<"s", it[2], it[3], it[3] + keep, e>>
ItemStart(it) == ItemEnd(it) - ItemLen(it)

\* b[k:] and b[:k], where item i holds byte k and byte k-1
DropAt(b, k, i) ==
    ShiftAll(<<ItemDrop(b[i], k - ItemStart(b[i]))>> \o SubSeq(b, i + 1, Len(b)), 0 - k)
TakeAt(b, k, i) ==
    SubSeq(b, 1, i - 1) \o <<ItemTake(b[i], k - ItemStart(b[i]), k)>>

\* b[k:]
Drop(b, k) ==
    IF k <= 0 THEN b
    ELSE IF k >= BLen(b) THEN <<>>
    ELSE DropAt(b, k, Seek(b, 1, Len(b), k))

\* b[:k]
Take(b, k) ==
    IF k <= 0 THEN <<>>
    ELSE IF k >= BLen(b) THEN b
    ELSE TakeAt(b, k, Seek(b, 1, Len(b), k - 1))

\* b[i:j]
Slice(b, i, j) == Take(Drop(b, i), j - i)

Min(a, b) == IF a < b THEN a ELSE b

\* copy(dst[off:], src)
CopyN(dst, off, src, c) == Cat(Cat(Take(dst, off), Take(src, c)), Drop(dst, off + c))
CopyAt(dst, off, src) == CopyN(dst, off, src, Min(BLen(src), BLen(dst) - off))

\* make([]byte, k)
Zeros(k) == IF k = 0 THEN <<>> ELSE <<<<"b", 0, k, k>>>>
Byte(v) == <<<<"b", v, 1, 1>>>>

\* the n bytes of a value, and the value a run of n bytes stands for
ToBytes(t) == IF t[1] = "raw" THEN t[2] ELSE <<<<"s", t, 0, n, n>>>>
FromBytes(b) ==
    IF Len(b) = 1 /\ b[1][1] = "s" /\ b[1][3] = 0 /\ b[1][4] = n
    THEN b[1][2] ELSE <<"raw", b>>

\* binary.BigEndian.PutUint32 / Uint32
PutUint32(v) ==
    Cat(Cat(Cat(Byte(Shr(v, 24) % 256), Byte(Shr(v, 16) % 256)),
            Byte(Shr(v, 8) % 256)), Byte(v % 256))
ByteAt(b, i) == b[Seek(b, 1, Len(b), i)][2]
Uint32(b) ==
    ByteAt(b, 0) * 16777216 + ByteAt(b, 1) * 65536 + ByteAt(b, 2) * 256 + ByteAt(b, 3)

(***************************************************************************)
(* Addresses: eight 32-bit words, kept 0-based as in the source.           *)
(***************************************************************************)
NewAddr == <<0, 0, 0, 0, 0, 0, 0, 0>>
AddrSet(a, word, v) == [a EXCEPT ![word + 1] = v]
AddrSetTree(a, tree) ==
    [a EXCEPT ![adrTree + 1] = Shr(Shr(tree, 16), 16),
              ![adrTree + 2] = (tree % 65536) + 65536 * (Shr(tree, 16) % 65536)]

(***************************************************************************)
(* Hash primitives.                                                        *)
(***************************************************************************)
HMAC(key, b) == <<"hmac", key, b>>
PRFsum(seed, input) == <<"prf", seed, input>>
PRFsumInt(seed, i) == PRFsum(seed, AddrSet(NewAddr, 7, i))
XorWords(a, b) == <<"xor", a, b>>
HashH(key, l, r) == <<"H", key, l, r>>
HashMsg(r96, msg) == <<"hmsg", r96, msg>>

(***************************************************************************)
(* WOTS+.  Chain positions are <<"c", k>> for the constant k and           *)
(* <<"d", hmsg, i>> for the i-th base-w digit of the digest hmsg.          *)
(***************************************************************************)
PosC(k) == <<"c", k>>
PosD(hmsg, i) == <<"d", hmsg, i>>

\* x advanced from position from to position to under (seed, addrs)
Chain(x, from, to, seed, addrs) ==
    LET a == AddrSet(AddrSet(addrs, adrHash, 0), adrKM, 0)
    IN IF from = to THEN x
       ELSE IF x[1] = "chain" /\ x[3] = seed /\ x[4] = a /\ x[6] = from
            THEN <<"chain", x[2], seed, a, x[5], to>>
            ELSE <<"chain", x, seed, a, from, to>>

\* the address as the WOTS+ routines leave it
WotsAddrAfter(addrs) ==
    AddrSet(AddrSet(AddrSet(addrs, adrChain, wlen - 1), adrHash, w - 2), adrKM, 1)

newWotsPrivKey(wotsSeed, addrs) ==
    LET s == PRFsum(wotsSeed, addrs)
    IN [i \in 1..wlen |-> PRFsumInt(s, i - 1)]

newWotsPubKey(sk, seed, addrs) ==
    [i \in 1..wlen |-> Chain(sk[i], PosC(0), PosC(w - 1), seed,
                             AddrSet(addrs, adrChain, i - 1))]

wotsSign(sk, hmsg, seed, addrs) ==
    [i \in 1..wlen |-> Chain(sk[i], PosC(0), PosD(hmsg, i - 1), seed,
                             AddrSet(addrs, adrChain, i - 1))]

wotsPubkey(sig, hmsg, seed, addrs) ==
    [i \in 1..wlen |-> Chain(sig[i], PosD(hmsg, i - 1), PosC(w - 1), seed,
                             AddrSet(addrs, adrChain, i - 1))]

(***************************************************************************)
(* randHash and the L-tree.                                                *)
(***************************************************************************)
\* Merkle nodes have short names.  MerkleNode(ws, seed, layer, thi, tlo, h, j)
\* stands for the node of height h and index j of the tree of the key with
\* WOTS+ seed ws and public seed seed at (layer, tree): for h = 0 the value
\* ltree gives for the WOTS+ public key of leaf j under the L-tree address of
\* leaf j, for h > 0 the value randHash gives for the two children under the
\* hash-tree address (h - 1, j).  A value computed in any other way keeps its
\* full term, so two values are equal exactly if they were computed from equal
\* inputs.
MerkleNode(ws, seed, layer, thi, tlo, h, j) == <<"node", ws, seed, layer, thi, tlo, h, j>>

IsSiblingPair(left, right, seed, addrs) ==
    /\ left[1] = "node"
    /\ right[1] = "node"
    /\ SubSeq(left, 2, 7) = SubSeq(right, 2, 7)
    /\ left[8] % 2 = 0
    /\ right[8] = left[8] + 1
    /\ seed = left[3]
    /\ AddrSet(addrs, adrKM, 0) = <<left[4], left[5], left[6], 2, 0, left[7], Shr(left[8], 1), 0>>

randHash(left, right, seed, addrs) ==
    LET key == PRFsum(seed, AddrSet(addrs, adrKM, 0))
        bm0 == PRFsum(seed, AddrSet(addrs, adrKM, 1))
        bm1 == PRFsum(seed, AddrSet(addrs, adrKM, 2))
    IN IF IsSiblingPair(left, right, seed, addrs)
       THEN MerkleNode(left[2], left[3], left[4], left[5], left[6], left[7] + 1, Shr(left[8], 1))
       ELSE HashH(key, XorWords(left, bm0), XorWords(right, bm1))

\* the inner loop of ltree, pk[i] = randHash(pk[2i], pk[2i+1]) for i < l/2:
\* iteration i reads entries 2i and 2i+1, which no earlier iteration wrote;
\* the address keeps the index of the last iteration
ltreeLevel(pk, l, seed, addrs) ==
    <<[j \in 1..Len(pk) |->
          IF j <= Shr(l, 1)
          THEN randHash(pk[2 * j - 1], pk[2 * j], seed, AddrSet(addrs, adrIndex, j - 1))
          ELSE pk[j]],
      AddrSet(AddrSet(addrs, adrIndex, Shr(l, 1) - 1), adrKM, 2)>>

\* ltreeOdd without the copy
ltreeOddLost(pk, l) == pk

\* copy(pk[l>>1], pk[l-1]) for odd l
ltreeOdd(pk, l) == IF l % 2 = 1 THEN [pk EXCEPT ![Shr(l, 1) + 1] = pk[l]] ELSE pk

\* the outer loop of ltree from width l on; r is the level just computed
RECURSIVE ltreeLoop(_, _, _, _, _)
ltreeNext(r, l, height, seed) ==
    ltreeLoop(ltreeOdd(r[1], l), Shr(l, 1) + (l % 2), height + 1, seed,
              AddrSet(r[2], adrHeight, height + 1))

ltreeLoop(pk, l, height, seed, addrs) ==
    IF l > 1 THEN ltreeNext(ltreeLevel(pk, l, seed, addrs), l, height, seed)
    ELSE <<pk[1], addrs>>

\* p is the end of a chain that starts at a WOTS+ secret value
IsChainEnd(p) == p[1] = "chain" /\ p[2][1] = "prf" /\ p[2][2][1] = "prf"

\* pk is the public key of the WOTS+ key pair (ws, a0) under seed and
\* addrs the L-tree address of leaf a0[adrOTS]
IsKeyOf(pk, seed, addrs, ws, a0) ==
    /\ a0 = <<a0[1], a0[2], a0[3], 0, a0[5], 0, 0, 0>>
    /\ pk = newWotsPubKey(newWotsPrivKey(ws, a0), seed, a0)
    /\ <<addrs[1], addrs[2], addrs[3], addrs[4], addrs[5]>>
           = <<a0[1], a0[2], a0[3], 1, a0[5]>>

IsLeafKey(pk, seed, addrs) ==
    IsChainEnd(pk[1]) /\ IsKeyOf(pk, seed, addrs, pk[1][2][2][2], pk[1][2][2][3])

LeafNode(ws, seed, a0) == MerkleNode(ws, seed, a0[1], a0[2], a0[3], 0, a0[5])

\* the address as the loops of ltree leave it: height counts the levels, the
\* index is that of the last randHash, whose last write is adrKM = 2
RECURSIVE ltreeAddr(_, _, _)
ltreeAddr(l, height, addrs) ==
    IF l > 1
    THEN ltreeAddr(Shr(l, 1) + (l % 2), height + 1,
                   AddrSet(AddrSet(AddrSet(addrs, adrIndex, Shr(l, 1) - 1), adrKM, 2),
                           adrHeight, height + 1))
    ELSE addrs

\* <<pk[0], addrs>>: the value ltree returns and the address as it leaves it
ltreeRun(pk, seed, addrs) ==
    IF IsLeafKey(pk, seed, addrs)
    THEN <<LeafNode(pk[1][2][2][2], seed, pk[1][2][2][3]),
           ltreeAddr(wlen, 0, AddrSet(addrs, adrHeight, 0))>>
    ELSE ltreeLoop(pk, wlen, 0, seed, AddrSet(addrs, adrHeight, 0))

ltree(pk, seed, addrs) == ltreeRun(pk, seed, addrs)[1]

\* ltree for a vector of l nodes (the source has l = wlen):
\* <<pk[0], addrs>> as ltreeRun gives them
ltreeOfLen(pk, l, seed, addrs) ==
    IF l = wlen THEN ltreeRun(pk, seed, addrs)
    ELSE ltreeLoop(pk, l, 0, seed, AddrSet(addrs, adrHeight, 0))

(***************************************************************************)
(* In the loops below a test that always holds (Len(r) = 2 and the like)   *)
(* makes the model checker evaluate an iteration before the next one.      *)
(***************************************************************************)
(* The stack engine.  A node is [node, height, index]; a stack is          *)
(* [stack, height, leaf, layer, tree] with the top at the end of stack.    *)
(***************************************************************************)
top(s) == s.stack[Len(s.stack)]
nextTop(s) == s.stack[Len(s.stack) - 1]
\* push that puts the node under the stack
pushUnder(s, nd) == [s EXCEPT !.stack = <<nd>> \o @]

push(s, nd) == [s EXCEPT !.stack = Append(@, nd)]
delete(s, i) == [s EXCEPT !.stack = SubSeq(@, 1, Len(@) - i)]

RECURSIVE minHeight(_, _)
minHeight(st, min) ==
    IF st = <<>> THEN min
    ELSE minHeight(Tail(st), IF Head(st).height < min THEN Head(st).height ELSE min)

low(s) ==
    IF Len(s.stack) = 0 THEN s.height
    ELSE IF top(s).height = s.height THEN MaxUint32
    ELSE minHeight(s.stack, MaxUint32)

\* initialize without s.stack = s.stack[:0]
initializeKeep(s, start, height) == [s EXCEPT !.leaf = start, !.height = height]

\* initialize with the target one above
initializeAbove(s, start, height) ==
    [s EXCEPT !.leaf = start, !.height = height + 1, !.stack = <<>>]

initialize(s, start, height) ==
    [s EXCEPT !.leaf = start, !.height = height, !.stack = <<>>]

\* the address of the WOTS+ key pair of leaf idx, and the L-tree address
\* the WOTS+ address a0 is turned into
OtsAddr(layer, tree, idx) ==
    AddrSet(AddrSetTree(AddrSet(NewAddr, adrLayer, layer), tree), adrOTS, idx)
LtreeAddrOf(a0, idx) == AddrSet(AddrSet(WotsAddrAfter(a0), adrType, 1), adrLtree, idx)

\* the leaf node of the key pair at a0; priv is read for its seeds only
leafAt(s, priv, a0) ==
    ltree(newWotsPubKey(newWotsPrivKey(priv.wotsPRF, a0), priv.publicSeed, a0),
          priv.publicSeed, LtreeAddrOf(a0, s.leaf))

newleaf(s, priv) ==
    [push(s, [node |-> leafAt(s, priv, OtsAddr(s.layer, s.tree, s.leaf)),
              height |-> 0, index |-> s.leaf])
       EXCEPT !.leaf = s.leaf + 1]

\* the parent of the two nodes on top of the stack
parent(s, priv, left, right) ==
    [node |-> randHash(left.node, right.node, priv.publicSeed,
                       AddrSet(AddrSet(AddrSetTree(AddrSet(AddrSet(NewAddr, adrType, 2),
                           adrLayer, s.layer), s.tree), adrHeight, right.height),
                           adrIndex, Shr(right.index, 1))),
     height |-> right.height + 1, index |-> Shr(right.index, 1)]

\* one iteration of the loop of updateSub; ntop is the queue the
\* leaf-maker of initMerkle pops from, mk selects the leaf-maker
updateStep(s, priv, mk, ntop) ==
    IF Len(s.stack) >= 2 /\ nextTop(s).height = top(s).height
    THEN <<push(delete(s, 2), parent(s, priv, nextTop(s), top(s))), ntop>>
    ELSE IF mk = "pop"
         THEN <<push(s, Head(ntop)), Tail(ntop)>>
         ELSE <<newleaf(s, priv), ntop>>

\* the loop of updateSub with nn iterations left; r is the last iteration
RECURSIVE updateLoop(_, _, _, _, _)
updateNext(r, nn, priv, mk) ==
    IF Len(r) = 2 THEN updateLoop(r[1], nn - 1, priv, mk, r[2]) ELSE r

updateLoop(s, nn, priv, mk, ntop) ==
    IF nn = 0 THEN <<s, ntop>>
    ELSE updateNext(updateStep(s, priv, mk, ntop), nn, priv, mk)

updateSub(s, nn, priv, mk, ntop) ==
    IF Len(s.stack) > 0 /\ top(s).height = s.height
    THEN <<s, ntop>>
    ELSE updateLoop(s, nn, priv, mk, ntop)

update(s, nn, priv) == updateSub(s, nn, priv, "leaf", <<>>)[1]
\* goUpdate with twice the budget
goUpdateTwice(s, nn, priv) == updateSub(s, 2 * nn, priv, "leaf", <<>>)[1]

goUpdate(s, nn, priv) == updateSub(s, nn, priv, "leaf", <<>>)[1]

(***************************************************************************)
(* The Merkle traversal state.                                             *)
(***************************************************************************)
RECURSIVE log2floor(_)
log2floor(k) == IF k <= 1 THEN 0 ELSE 1 + log2floor(k \div 2)

\* the worker exponent initMerkle derives from GOMAXPROCS = ncpu
nprocOf(ncpu, h) ==
    LET l == log2floor(ncpu)
        np == IF ncpu # Pow2(l) THEN l + 1 ELSE l
    IN IF h <= np THEN 0 ELSE np

\* worker with its first leaf at (1 << (h - nproc)) * (i - 1)
workerFromZero(priv, h, nproc, layer, tree, i) ==
    top(update([stack |-> <<>>, height |-> h - nproc,
                leaf |-> Pow2(h - nproc) * (i - 1), layer |-> layer, tree |-> tree],
               Pow2(h - nproc + 1) - 1, priv))

\* the goroutine of worker i: the root of subtree i at height h - nproc
worker(priv, h, nproc, layer, tree, i) ==
    top(update([stack |-> <<>>, height |-> h - nproc,
                leaf |-> Pow2(h - nproc) * i, layer |-> layer, tree |-> tree],
               Pow2(h - nproc + 1) - 1, priv))

\* the stack initMerkle seeds stacks[i] with
seedStack(s1, i) ==
    [stack |-> <<top(s1)>>, height |-> i, leaf |-> Pow2(i),
     layer |-> s1.layer, tree |-> s1.tree]

\* iterations i .. h-1 of the main loop of initMerkle: initLoop runs
\* s.update(1, priv), initSeed seeds stacks[i] and brings s to height i+1
\* (popping the workers' roots once i >= h - nproc), initNext sets auth[i]
RECURSIVE initLoop(_, _, _, _, _, _, _, _)
initNext(priv, h, nproc, i, r, stacks, auth) ==
    IF Len(r) = 2
    THEN initLoop(priv, h, nproc, i + 1, r[1], r[2], stacks,
                  Append(auth, top(r[1]).node))
    ELSE [s |-> r[1], stacks |-> stacks, auth |-> auth]

initSeed(priv, h, nproc, i, s1, ntop, stacks, auth) ==
    initNext(priv, h, nproc, i,
             IF i < h - nproc
             THEN <<update(s1, Pow2(i + 1) - 1, priv), ntop>>
             ELSE updateSub(s1, Pow2(i - (h - nproc) + 1) - 1, priv, "pop", ntop),
             Append(stacks, seedStack(s1, i)), auth)

initLoop(priv, h, nproc, i, s, ntop, stacks, auth) ==
    IF i < h
    THEN initSeed(priv, h, nproc, i, update(s, 1, priv), ntop, stacks, auth)
    ELSE [s |-> s, stacks |-> stacks, auth |-> auth]

\* the merkle state and the root, from the result r of the main loop
initDone(priv, h, layer, tree, r) ==
    [m |-> [leaf |-> 0, height |-> h, stacks |-> r.stacks, auth |-> r.auth,
            layer |-> layer, tree |-> tree],
     root |-> top(update(r.s, 1, priv)).node]

\* initMerkle with worker exponent nproc
initRun(priv, h, layer, tree, nproc) ==
    initDone(priv, h, layer, tree,
             initLoop(priv, h, nproc, 0,
                      [stack |-> <<>>, height |-> h, leaf |-> 0,
                       layer |-> layer, tree |-> tree],
                      [i \in 1..(Pow2(nproc) - 1) |->
                          worker(priv, h, nproc, layer, tree, i)],
                      <<>>, <<>>))

\* the merkle state and the root initMerkle computes
initMerkle(priv, h, layer, tree, ncpu) == initRun(priv, h, layer, tree, nprocOf(ncpu, h))

\* refreshAt with startnode = (m.leaf + 1) + pow, the XOR with pow left out
refreshAtNoFold(m, h) ==
    [m EXCEPT !.auth[h + 1] = top(m.stacks[h + 1]).node,
              !.stacks[h + 1] = initialize(@, m.leaf + 1 + Pow2(h), h)]

\* refreshAt without m.auth[h] = m.stacks[h].top().node
refreshAtNoAuth(m, h) ==
    [m EXCEPT !.stacks[h + 1] = initialize(@, XorPow(m.leaf + 1 + Pow2(h), h), h)]

\* m.auth[h] = m.stacks[h].top().node; m.stacks[h].initialize(startnode, h)
refreshAt(m, h) ==
    [m EXCEPT !.auth[h + 1] = top(m.stacks[h + 1]).node,
              !.stacks[h + 1] = initialize(@, XorPow(m.leaf + 1 + Pow2(h), h), h)]

\* heights h .. m.height-1 of refreshAuth; fault: top() of an empty stack
RECURSIVE refreshLoop(_, _)
refreshLoop(m, h) ==
    IF h < m.height
    THEN IF (m.leaf + 1) % Pow2(h) = 0
         THEN IF Len(m.stacks[h + 1].stack) = 0
              THEN [m |-> m, fault |-> TRUE]
              ELSE refreshLoop(refreshAt(m, h), h + 1)
         ELSE refreshLoop(m, h + 1)
    ELSE [m |-> m, fault |-> FALSE]

refreshAuth(m) == refreshLoop(m, 0)

\* lower with <= for <
lowerOrEqual(stacks, h, min) == low(stacks[h + 1]) <= min

\* low() of stacks[h] is below min
lower(stacks, h, min) == low(stacks[h + 1]) < min

\* the stack build() advances: minimal low(), the lower height on a tie
RECURSIVE focusLoop(_, _, _, _)
focusLoop(stacks, h, min, focus) ==
    IF h < Len(stacks)
    THEN IF lower(stacks, h, min)
         THEN focusLoop(stacks, h + 1, low(stacks[h + 1]), h)
         ELSE focusLoop(stacks, h + 1, min, focus)
    ELSE focus

\* priv.m.stacks[focus].goUpdate(1, priv)
buildStep(m, priv, focus) == [m EXCEPT !.stacks[focus + 1] = goUpdate(@, 1, priv)]

\* the loop of build with k iterations left; m1 is m after one iteration
RECURSIVE buildLoop(_, _, _)
buildNext(m1, priv, k) ==
    IF m1.height >= 0 THEN buildLoop(m1, priv, k - 1) ELSE m1

buildLoop(m, priv, k) ==
    IF k = 0 THEN m
    ELSE buildNext(buildStep(m, priv, focusLoop(m.stacks, 0, MaxUint32, 0)), priv, k)

build(m, priv) == buildLoop(m, priv, 2 * m.height - 1)

\* for height 0 the uint32 bound (2 * 0) - 1 of build's loop wraps to
\* MaxUint32 and the first iteration indexes the empty stacks: a panic
buildFaults(m) == m.height = 0

\* traverseFrom without m.leaf++
traverseFromNoInc(r, priv) ==
    IF r.fault THEN r
    ELSE IF buildFaults(r.m) THEN [m |-> r.m, fault |-> TRUE]
    ELSE [m |-> build(r.m, priv), fault |-> FALSE]

\* build and the increment of leaf, after refreshAuth gave r
traverseFrom(r, priv) ==
    IF r.fault THEN r
    ELSE IF buildFaults(r.m) THEN [m |-> r.m, fault |-> TRUE]
    ELSE [m |-> [build(r.m, priv) EXCEPT !.leaf = @ + 1], fault |-> FALSE]

traverse(m, priv) == traverseFrom(refreshAuth(m), priv)

(***************************************************************************)
(* Signatures: serialisation, parsing, root reconstruction.                *)
(* A signature is [index, r, sig, auth]: r a value, sig and auth sequences *)
(* of values.                                                              *)
(***************************************************************************)
\* for i in lo..hi: copy(dst[off+(i-1)*n:], vals[i]), in index order (the
\* range is split in halves to keep the evaluation shallow)
RECURSIVE copyAll(_, _, _, _, _)
copyRest(d, off, vals, lo, hi) ==
    IF Len(d) >= 0 THEN copyAll(d, off, vals, lo, hi) ELSE d

copyAll(dst, off, vals, lo, hi) ==
    IF lo > hi THEN dst
    ELSE IF lo = hi THEN CopyAt(dst, off + (lo - 1) * n, ToBytes(vals[lo]))
    ELSE copyRest(copyAll(dst, off, vals, lo, (lo + hi) \div 2), off, vals,
                  (lo + hi) \div 2 + 1, hi)

\* sigBodyBytes with the auth nodes one slot too far
sigBodyBytesShifted(x) ==
    copyAll(copyAll(Zeros(wlen * n + Len(x.auth) * n), 0, x.sig, 1, Len(x.sig)),
            wlen * n + n, x.auth, 1, Len(x.auth))

sigBodyBytes(x) ==
    copyAll(copyAll(Zeros(wlen * n + Len(x.auth) * n), 0, x.sig, 1, Len(x.sig)),
            wlen * n, x.auth, 1, Len(x.auth))

sigBytes(x) ==
    CopyAt(CopyAt(CopyAt(Zeros(4 + n + wlen * n + Len(x.auth) * n), 0,
                         PutUint32(x.index)),
                  4, ToBytes(x.r)),
           4 + n, sigBodyBytes(x))

bytes2sigBody(b, height) ==
    [sig |-> [i \in 1..wlen |-> FromBytes(Slice(b, (i - 1) * n, i * n))],
     auth |-> [i \in 1..height |->
                  FromBytes(Slice(b, n * wlen + n * (i - 1), n * wlen + n * i))]]

\* the height bytes2sig derives from the length (an arithmetic shift)
sigHeight(b) == (BLen(b) - (4 + n + wlen * n)) \div 32

\* the xmssSig bytes2sig returns, given the body
sigOf(b, body) ==
    [err |-> FALSE, index |-> Uint32(b), r |-> FromBytes(Slice(b, 4, 4 + n)),
     sig |-> body.sig \o <<>>, auth |-> body.auth \o <<>>]

bytes2sig(b, h) ==
    IF sigHeight(b) # h THEN [err |-> TRUE]
    ELSE sigOf(b, bytes2sigBody(Drop(b, 4 + n), sigHeight(b)))

\* climbStep without the test of the index bit: node0 always on the left
climbStepLeft(node0, idx, sib, seed, a) == randHash(node0, sib, seed, a)

\* one iteration of the loop of rootFromSig
climbStep(node0, idx, sib, seed, a) ==
    IF idx % 2 = 0 THEN randHash(node0, sib, seed, a) ELSE randHash(sib, node0, seed, a)

\* iterations k .. of the loop of rootFromSig; nd is node0 after iteration k
RECURSIVE climb(_, _, _, _, _, _)
climbNext(nd, idx, auth, k, seed, a) ==
    IF Len(nd) > 0 THEN climb(nd, Shr(idx, 1), auth, k + 1, seed, a) ELSE nd

climbAt(node0, idx, auth, k, seed, a) ==
    climbNext(climbStep(node0, idx, auth[k + 1], seed, a), idx, auth, k, seed, a)

climb(node0, idx, auth, k, seed, addrs) ==
    IF k < Len(auth)
    THEN climbAt(node0, idx, auth, k, seed,
                 AddrSet(AddrSet(addrs, adrHeight, k), adrIndex, Shr(idx, 1)))
    ELSE node0

\* rootFromSig once ltree gave lt = <<node0, addrs>>
rootFromLeaf(idx, body, seed, lt) ==
    climb(lt[1], idx, body.auth, 0, seed,
          AddrSet(AddrSet(lt[2], adrType, 2), adrLtree, 0))

\* rootFromSig with addrs the WOTS+ address a0
rootFromAddr(idx, hmsg, body, seed, a0) ==
    rootFromLeaf(idx, body, seed,
                 ltreeRun(wotsPubkey(body.sig, hmsg, seed, a0), seed, LtreeAddrOf(a0, idx)))

rootFromSig(idx, hmsg, body, seed, layer, tree) ==
    rootFromAddr(idx, hmsg, body, seed, OtsAddr(layer, tree, idx))

\* index: the leaf number in the last four of 32 bytes, and the same 32
\* bytes read as the eight words of a PRF input
index32(v) == CopyAt(Zeros(32), 28, PutUint32(v))
indexWords(v) == AddrSet(NewAddr, 7, v)

\* verifySig with the root left out of the hashMsg key and of the final
\* comparison: any well-formed signature passes
verifySigAny(pub, sg, msg) == ~sg.err

\* Verify once bytes2sig gave sg
verifySig(pub, sg, msg) ==
    IF sg.err THEN FALSE
    ELSE rootFromSig(sg.index,
                     HashMsg(CopyAt(CopyAt(CopyAt(Zeros(32 * 3), 0, ToBytes(sg.r)),
                                           32, ToBytes(pub.root)),
                                    64 + 28, PutUint32(sg.index)),
                             msg),
                     sg, pub.publicSeed, 0, 0) = pub.root

\* pub is [Height, publicSeed, root]: root the value of the root array
Verify(pub, bsig, msg) == verifySig(pub, bytes2sig(bsig, pub.Height % 256), msg)

createSignatureBody(priv, m, hmsg) ==
    [sig |-> wotsSign(newWotsPrivKey(priv.wotsPRF, OtsAddr(m.layer, m.tree, m.leaf)),
                      hmsg, priv.publicSeed, OtsAddr(m.layer, m.tree, m.leaf)),
     auth |-> m.auth]

\* the xmssSig Sign makes from r and the body
sigOfBody(index, r, body) ==
    [index |-> index, r |-> FromBytes(Take(r, 32)), sig |-> body.sig \o <<>>,
     auth |-> body.auth]

\* the xmssSig of Sign, from the hashMsg key r on
signWith(priv, r, msg) ==
    sigOfBody(priv.m.leaf, r, createSignatureBody(priv, priv.m, HashMsg(r, msg)))

\* SignSig with the index bytes left zero in the input of msgPRF
SignSigFixedR(priv, root, msg) ==
    signWith(priv,
             CopyAt(CopyAt(CopyAt(Zeros(32 * 3), 0,
                                  ToBytes(PRFsum(priv.msgPRF, indexWords(0)))),
                           32, ToBytes(root)),
                    64, index32(priv.m.leaf)),
             msg)

\* the xmssSig Sign serialises; root is the value of the key's root array
SignSig(priv, root, msg) ==
    signWith(priv,
             CopyAt(CopyAt(CopyAt(Zeros(32 * 3), 0,
                                  ToBytes(PRFsum(priv.msgPRF, indexWords(priv.m.leaf)))),
                           32, ToBytes(root)),
                    64, index32(priv.m.leaf)),
             msg)

\* the bytes Sign returns
SignBytes(priv, root, msg) == sigBytes(SignSig(priv, root, msg))

(***************************************************************************)
(* The state.                                                              *)
(*   priv[s]    the PrivateKey object in slot s:                           *)
(*              [Height, publicSeed, root, msgPRF, wotsPRF, m]; root names *)
(*              the byte array the key's root slice points into            *)
(*   pub[s]     the PublicKey object key generation returned for slot s    *)
(*   rootMem    the contents of the root arrays                            *)
(*   exports    the PrivateKeyExport a caller holds (at most one), with   *)
(*              the slot it was taken from and the number of signatures    *)
(*              the key had made                                           *)
(*   lastSig    the signature the last Sign returned: its bytes, with the  *)
(*              xmssSig they serialise, the message, the key's slot and    *)
(*              height and the number of signatures the key made before    *)
(*   vr         the Verify call the caller is in, with its result          *)
(*   panicked   a Sign call panicked                                       *)
(*   signed, imp, nprocs   history: signatures emitted by a key since its  *)
(*              last initMerkle, the export a key was last imported from,  *)
(*              and the worker exponent of its last initMerkle             *)
(*   kept       a signature the caller kept from an earlier Sign           *)
(*   run        the initMerkle call in progress, goroutine by goroutine    *)
(*   der        the PKCS#8 encoding of a private key the caller holds: the *)
(*              fields it carries, with the slot and height of the key it  *)
(*              was made from and the outcome of parsing it                *)
(*   stk        a stack a caller of update holds, with the call in progress *)
(*   gor        the Sign calls in progress on one key, one per goroutine    *)
(*   fold       a vector of nodes a caller of ltree holds, and the result   *)
(***************************************************************************)
VARIABLES priv, pub, rootMem, exports, lastSig, vr, panicked, signed, imp, nprocs,
          kept, run, der, stk, gor, fold

vars == <<priv, pub, rootMem, exports, lastSig, vr, panicked, signed, imp, nprocs,
          kept, run, der, stk, gor, fold>>

Live == DOMAIN priv
Put(f, k, v) == [z \in DOMAIN f \cup {k} |-> IF z = k THEN v ELSE f[z]]

Init ==
    /\ priv = <<>>
    /\ pub = <<>>
    /\ rootMem = <<>>
    /\ exports = <<>>
    /\ lastSig = <<>>
    /\ vr = <<>>
    /\ panicked = FALSE
    /\ signed = [s \in Slots |-> 0]
    /\ imp = [s \in Slots |-> <<>>]
    /\ nprocs = [s \in Slots |-> 0]
    /\ kept = <<>>
    /\ run = <<>>
    /\ der = <<>>
    /\ stk = <<>>
    /\ gor = <<>>
    /\ fold = <<>>

\* the caller is between two calls and no call has panicked
Idle == ~panicked /\ vr = <<>>

\* initMerkle gave r for the key key0 of slot s: priv.m = m and
\* copy(priv.root, s.top().node)
Built(s, key0, r) ==
    /\ priv' = Put(priv, s, key0 @@ [m |-> r.m])
    /\ rootMem' = Put(rootMem, key0.root, r.root)

\* Sign made the xmssSig x for msg and traverse gave r for the key of slot
\* s: Sign returns x.bytes() unless traverse panicked
Traversed(s, msg, x, r) ==
    /\ priv' = [priv EXCEPT ![s].m = r.m]
    /\ panicked' = r.fault
    /\ lastSig' = IF r.fault THEN lastSig
                  ELSE <<[bytes |-> sigBytes(x), x |-> x, msg |-> msg, slot |-> s,
                          height |-> priv[s].Height, nth |-> signed[s]]>>
    /\ signed' = [signed EXCEPT ![s] = IF r.fault THEN @ ELSE @ + 1]

NewXMSSKeyPairWithParams(s, height, secretKeySeed, secretKeyPRF, publicSeed, layer, tree, ncpu) ==
    /\ Idle
    /\ s \notin Live
    /\ Built(s, [Height |-> height, publicSeed |-> publicSeed, root |-> s,
                  msgPRF |-> secretKeyPRF, wotsPRF |-> secretKeySeed],
             initMerkle([Height |-> height, publicSeed |-> publicSeed, root |-> s,
                         msgPRF |-> secretKeyPRF, wotsPRF |-> secretKeySeed],
                        height, layer, tree, ncpu))
    /\ pub' = Put(pub, s, [Height |-> height, publicSeed |-> publicSeed, root |-> s])
    /\ nprocs' = [nprocs EXCEPT ![s] = nprocOf(ncpu, height)]
    /\ signed' = [signed EXCEPT ![s] = 0]
    /\ imp' = [imp EXCEPT ![s] = <<>>]
    /\ UNCHANGED <<exports, lastSig, vr, panicked, kept, run, der, stk, gor, fold>>

NewXMSSKeyPair(s, height, privateSeed, ncpu) ==
    NewXMSSKeyPairWithParams(s, height, HMAC(privateSeed, 1), HMAC(privateSeed, 2),
                             HMAC(privateSeed, 3), 0, 0, ncpu)

\* Sign has no test of the index; the model stops a key MaxOver signatures
\* after its last leaf
Sign(s, msg) ==
    /\ Idle
    /\ s \in Live
    /\ priv[s].m.leaf < Pow2(priv[s].Height) + MaxOver
    /\ Traversed(s, msg, SignSig(priv[s], rootMem[priv[s].root], msg),
                 traverse(priv[s].m, priv[s]))
    /\ UNCHANGED <<pub, rootMem, exports, vr, imp, nprocs, kept, run, der, stk, gor, fold>>

Export(s) ==
    /\ Idle
    /\ s \in Live
    /\ exports' = <<[Height |-> priv[s].Height, PublicSeed |-> priv[s].publicSeed,
                     Root |-> priv[s].root, Index |-> priv[s].m.leaf,
                     SecretKeyPRF |-> priv[s].msgPRF,
                     SecretKeySeed |-> priv[s].wotsPRF, src |-> s,
                     emitted |-> signed[s]]>>
    /\ UNCHANGED <<priv, pub, rootMem, lastSig, vr, panicked, signed, imp, nprocs, kept, run, der, stk, gor, fold>>

\* the fields Import copies from key
Imported(key) ==
    [Height |-> key.Height, publicSeed |-> key.PublicSeed, root |-> key.Root,
     msgPRF |-> key.SecretKeyPRF, wotsPRF |-> key.SecretKeySeed]

\* priv[s].Import(key): s holds a key already (Import writes priv.m.leaf);
\* initMerkle then replaces priv.m and recomputes the root into key.Root
Import(s, ncpu) ==
    /\ Idle
    /\ s \in Live
    /\ exports # <<>>
    /\ Built(s, Imported(exports[1]),
             initMerkle(Imported(exports[1]), exports[1].Height, 0, 0, ncpu))
    /\ nprocs' = [nprocs EXCEPT ![s] = nprocOf(ncpu, exports[1].Height)]
    /\ imp' = [imp EXCEPT ![s] = <<[src |-> exports[1].src, Index |-> exports[1].Index]>>]
    /\ signed' = [signed EXCEPT ![s] = 0]
    /\ exports' = <<>>
    /\ UNCHANGED <<pub, lastSig, vr, panicked, kept, run, der, stk, gor, fold>>

\* MarshalPKCS8PrivateKey(priv[s]): the encoding carries the fields
\* marshalXMSSPrivateKey takes from Export(), the height is not among them
MarshalPKCS8PrivateKey(s) ==
    /\ Idle
    /\ s \in Live
    /\ der' = <<[Index |-> priv[s].m.leaf, SecretKeySeed |-> priv[s].wotsPRF,
                 SecretKeyPRF |-> priv[s].msgPRF, PublicSeed |-> priv[s].publicSeed,
                 Root |-> rootMem[priv[s].root], src |-> s,
                 height |-> priv[s].Height, parsed |-> "no"]>>
    /\ UNCHANGED <<priv, pub, rootMem, exports, lastSig, vr, panicked, signed, imp, nprocs,
                   kept, run, stk, gor, fold>>

\* the PrivateKeyExport parseXMSSPrivateKey makes of the decoded fields d;
\* Root is a new array, named root
parsedExport(d, root) ==
    [Height |-> 10, PublicSeed |-> d.PublicSeed, Root |-> root, Index |-> d.Index,
     SecretKeyPRF |-> d.SecretKeyPRF, SecretKeySeed |-> d.SecretKeySeed]

\* key.Import(e) on a key whose merkle state is m (<<>>: nil): the write of
\* priv.m.leaf is a nil dereference unless the key has a merkle state
importFaults(m) == m = <<>>

\* ParsePKCS8PrivateKey(der) with the new key put in slot s:
\* key := new(PrivateKey); key.Import(privKeyExport)
ParsePKCS8PrivateKey(s, ncpu) ==
    /\ Idle
    /\ s \notin Live
    /\ der # <<>>
    /\ der[1].parsed = "no"
    /\ IF importFaults(<<>>)
       THEN /\ panicked' = TRUE
            /\ der' = <<[der[1] EXCEPT !.parsed = "fault"]>>
            /\ UNCHANGED <<priv, rootMem, nprocs, imp, signed>>
       ELSE /\ Built(s, Imported(parsedExport(der[1], s)),
                     initMerkle(Imported(parsedExport(der[1], s)), 10, 0, 0, ncpu))
            /\ nprocs' = [nprocs EXCEPT ![s] = nprocOf(ncpu, 10)]
            /\ imp' = [imp EXCEPT ![s] = <<[src |-> der[1].src, Index |-> der[1].Index]>>]
            /\ signed' = [signed EXCEPT ![s] = 0]
            /\ der' = <<[der[1] EXCEPT !.parsed = "ok"]>>
            /\ UNCHANGED panicked
    /\ UNCHANGED <<pub, exports, lastSig, vr, kept, run, stk, gor, fold>>

(***************************************************************************)
(* initMerkle goroutine by goroutine.  run[1] is the call in progress:     *)
(*   slot, key, h, layer, tree, nproc   the key and the arguments          *)
(*   mpc, k, i, nn   the main goroutine: "spawn" (k the next worker to     *)
(*              start), "iter" (before iteration i of the main loop),      *)
(*              "sub" (in the updateSub call that pops, nn iterations      *)
(*              left), "done"                                              *)
(*   wg         the WaitGroup counter                                      *)
(*   wpc        each worker: "idle", "run", "wrote" (its slot), "done"     *)
(*   slots, base   the array behind ntop (<<>>: nil) and the number of     *)
(*              elements ntop = ntop[1:] has dropped                       *)
(*   s, stacks, auth   the main stack, m.stacks and m.auth                 *)
(*   popped, wrote   history: the nodes popped, each with whether all      *)
(*              workers were done, and the slot each worker wrote          *)
(***************************************************************************)
Workers(r) == 1..(Pow2(r.nproc) - 1)

\* NewXMSSKeyPair up to the first statements of initMerkle
InitStart(s, height, privateSeed, ncpu) ==
    /\ Idle
    /\ s \notin Live
    /\ run = <<>>
    /\ run' = <<[slot |-> s,
                 key |-> [Height |-> height, publicSeed |-> HMAC(privateSeed, 3),
                          root |-> s, msgPRF |-> HMAC(privateSeed, 2),
                          wotsPRF |-> HMAC(privateSeed, 1)],
                 h |-> height, layer |-> 0, tree |-> 0,
                 nproc |-> nprocOf(ncpu, height),
                 mpc |-> "spawn", k |-> 1, i |-> 0, nn |-> 0, wg |-> 0,
                 wpc |-> [j \in 1..(Pow2(nprocOf(ncpu, height)) - 1) |-> "idle"],
                 slots |-> [j \in 1..(Pow2(nprocOf(ncpu, height)) - 1) |-> <<>>],
                 base |-> 0,
                 s |-> [stack |-> <<>>, height |-> height, leaf |-> 0,
                        layer |-> 0, tree |-> 0],
                 stacks |-> <<>>, auth |-> <<>>, popped |-> <<>>,
                 wrote |-> [j \in 1..(Pow2(nprocOf(ncpu, height)) - 1) |-> 0 - 1]]>>
    /\ UNCHANGED <<priv, pub, rootMem, exports, lastSig, vr, panicked, signed, imp, nprocs,
                   kept, der, stk, gor, fold>>

\* one turn of the loop that starts the workers: wg.Add(1); go func(i)
Spawn ==
    /\ run # <<>>
    /\ run[1].mpc = "spawn"
    /\ run' = IF run[1].k \in Workers(run[1])
              THEN <<[run[1] EXCEPT !.wg = @ + 1, !.wpc[run[1].k] = "run", !.k = @ + 1]>>
              ELSE <<[run[1] EXCEPT !.mpc = "iter"]>>
    /\ UNCHANGED <<priv, pub, rootMem, exports, lastSig, vr, panicked, signed, imp, nprocs,
                   kept, der, stk, gor, fold>>

\* worker j: s.update(...); ntop[j-1] = s.top(), through the variable ntop
\* as it is at that moment
WorkerWrite(j) ==
    /\ run # <<>>
    /\ j \in Workers(run[1])
    /\ run[1].wpc[j] = "run"
    /\ IF run[1].base + j \in Workers(run[1])
       THEN /\ run' = <<[run[1] EXCEPT
                            !.slots[run[1].base + j] =
                                <<worker(run[1].key, run[1].h, run[1].nproc,
                                         run[1].layer, run[1].tree, j)>>,
                            !.wrote[j] = run[1].base + j - 1,
                            !.wpc[j] = "wrote"]>>
            /\ UNCHANGED panicked
       ELSE /\ panicked' = TRUE
            /\ UNCHANGED run
    /\ UNCHANGED <<priv, pub, rootMem, exports, lastSig, vr, signed, imp, nprocs, kept, der, stk, gor, fold>>

\* worker j: wg.Done()
WorkerDone(j) ==
    /\ run # <<>>
    /\ j \in Workers(run[1])
    /\ run[1].wpc[j] = "wrote"
    /\ run' = <<[run[1] EXCEPT !.wpc[j] = "done", !.wg = @ - 1]>>
    /\ UNCHANGED <<priv, pub, rootMem, exports, lastSig, vr, panicked, signed, imp, nprocs,
                   kept, der, stk, gor, fold>>

\* the main loop without wg.Wait()
waitOverUnjoined(r) == TRUE

\* if i == h-nproc { wg.Wait() } lets the main goroutine go on
waitOver(r) == (r.i = r.h - r.nproc) => r.wg = 0

\* the end of iteration i of the main loop, s2 the main stack: m.auth[i]
iterEnd(r, s2) ==
    [r EXCEPT !.s = s2, !.auth = Append(@, top(s2).node), !.i = @ + 1,
              !.mpc = "iter", !.nn = 0]

\* iteration i of the main loop from m.stacks[i] on, s1 the main stack after
\* s.update(1, priv): up to the end of the iteration, or into the updateSub
\* call that pops
iterBody(r, s1) ==
    IF r.i < r.h - r.nproc
    THEN iterEnd([r EXCEPT !.stacks = Append(@, seedStack(s1, r.i))],
                 update(s1, Pow2(r.i + 1) - 1, r.key))
    ELSE IF top(s1).height = s1.height
         THEN iterEnd([r EXCEPT !.stacks = Append(@, seedStack(s1, r.i))], s1)
         ELSE [r EXCEPT !.stacks = Append(@, seedStack(s1, r.i)), !.s = s1,
                        !.mpc = "sub", !.nn = Pow2(r.i - (r.h - r.nproc) + 1) - 1]

MainEnter ==
    /\ run # <<>>
    /\ run[1].mpc = "iter"
    /\ run[1].i < run[1].h
    /\ waitOver(run[1])
    /\ run' = <<iterBody(run[1], update(run[1].s, 1, run[1].key))>>
    /\ UNCHANGED <<priv, pub, rootMem, exports, lastSig, vr, panicked, signed, imp, nprocs,
                   kept, der, stk, gor, fold>>

\* one iteration of the loop of the updateSub call that pops: a combine, or
\* n := ntop[0]; ntop = ntop[1:]; s.push(n); a nil n faults at its first use
MainStep ==
    /\ run # <<>>
    /\ run[1].mpc = "sub"
    /\ IF run[1].nn = 0
       THEN /\ run' = <<iterEnd(run[1], run[1].s)>>
            /\ UNCHANGED panicked
       ELSE IF Len(run[1].s.stack) >= 2
                 /\ nextTop(run[1].s).height = top(run[1].s).height
       THEN /\ run' = <<[run[1] EXCEPT
                            !.s = updateStep(run[1].s, run[1].key, "pop", <<>>)[1],
                            !.nn = @ - 1]>>
            /\ UNCHANGED panicked
       ELSE IF run[1].base + 1 \notin Workers(run[1])
       THEN /\ panicked' = TRUE
            /\ UNCHANGED run
       ELSE IF run[1].slots[run[1].base + 1] = <<>>
       THEN /\ panicked' = TRUE
            /\ run' = <<[run[1] EXCEPT
                            !.base = @ + 1,
                            !.popped = Append(@, [node |-> <<>>, joined |->
                                \A j \in Workers(run[1]) : run[1].wpc[j] = "done"])]>>
       ELSE /\ run' = <<[run[1] EXCEPT
                            !.s = updateStep(run[1].s, run[1].key, "pop",
                                             run[1].slots[run[1].base + 1])[1],
                            !.base = @ + 1,
                            !.nn = @ - 1,
                            !.popped = Append(@, [node |-> run[1].slots[run[1].base + 1],
                                joined |->
                                \A j \in Workers(run[1]) : run[1].wpc[j] = "done"])]>>
            /\ UNCHANGED panicked
    /\ UNCHANGED <<priv, pub, rootMem, exports, lastSig, vr, signed, imp, nprocs, kept, der, stk, gor, fold>>

\* after the main loop: s.update(1, priv), the root, priv.m = m, and the
\* return of NewXMSSKeyPair
InitFinish ==
    /\ run # <<>>
    /\ run[1].mpc = "iter"
    /\ run[1].i = run[1].h
    /\ Built(run[1].slot, run[1].key,
             initDone(run[1].key, run[1].h, run[1].layer, run[1].tree,
                      [s |-> run[1].s, stacks |-> run[1].stacks, auth |-> run[1].auth]))
    /\ pub' = Put(pub, run[1].slot,
                  [Height |-> run[1].h, publicSeed |-> run[1].key.publicSeed,
                   root |-> run[1].key.root])
    /\ nprocs' = [nprocs EXCEPT ![run[1].slot] = run[1].nproc]
    /\ run' = <<[run[1] EXCEPT !.mpc = "done"]>>
    /\ UNCHANGED <<exports, lastSig, vr, panicked, signed, imp, kept, der, stk, gor, fold>>

(***************************************************************************)
(* The byte strings and keys handed to Verify: the signature the caller    *)
(* holds, as it is or changed in one place.                                *)
(***************************************************************************)
Lengths == {"short", "trunc", "extra1", "extra31", "extra32"}
Fields == {"idx", "r", "wots", "auth", "last"}
Keys == {"pkroot", "pkheight"}
Tampers == {"none"} \cup Keys \cup Lengths \cup Fields

\* a byte that differs from byte i of b
OtherItem(it) == IF it[1] = "b" THEN Byte((it[2] + 1) % 256) ELSE Byte(0)
OtherByte(b, i) == OtherItem(b[Seek(b, 1, Len(b), i)])

\* b with byte i changed
Flip(b, i) == CopyAt(b, i, OtherByte(b, i))

\* the byte a field change touches
FlipAt(b, t) ==
    CASE t = "idx" -> 3
      [] t = "r" -> 4
      [] t = "wots" -> 4 + n + 5 * n + 7
      [] t = "auth" -> 4 + n + wlen * n
      [] t = "last" -> BLen(b) - 1

\* the bytes a length change adds (removes, if negative)
Added(b, t) ==
    CASE t = "short" -> 3 - BLen(b)
      [] t = "trunc" -> 0 - 1
      [] t = "extra1" -> 1
      [] t = "extra31" -> 31
      [] t = "extra32" -> 32

Tamper(b, t) ==
    IF t \in Fields THEN Flip(b, FlipAt(b, t))
    ELSE IF t \in Lengths
         THEN Take(Cat(b, Zeros(32)), BLen(b) + Added(b, t))
         ELSE b

\* the PublicKey value of slot s; "pkroot", "pkheight": a public key that
\* differs from it in the root, in the height
PubOf(s, t) ==
    [Height |-> IF t = "pkheight" THEN pub[s].Height + 1 ELSE pub[s].Height,
     publicSeed |-> pub[s].publicSeed,
     root |-> IF t = "pkroot" THEN <<"in", "otherRoot">> ELSE rootMem[pub[s].root]]

\* pub[s].Verify(Tamper(signature, t), msg); a changed signature or key is
\* tried with the signer's key and the signed message
VerifyCall(s, t, msg) ==
    /\ Idle
    /\ lastSig # <<>>
    /\ s \in Live
    /\ t # "none" => (s = lastSig[1].slot /\ msg = lastSig[1].msg)
    /\ vr' = <<[s |-> s, t |-> t, msg |-> msg,
                ok |-> Verify(PubOf(s, t), Tamper(lastSig[1].bytes, t), msg)]>>
    /\ UNCHANGED <<priv, pub, rootMem, exports, lastSig, panicked, signed, imp, nprocs, kept, run, der, stk, gor, fold>>

\* the caller keeps the signature the last Sign returned
Keep ==
    /\ Idle
    /\ lastSig # <<>>
    /\ kept # lastSig
    /\ kept' = lastSig
    /\ UNCHANGED <<priv, pub, rootMem, exports, lastSig, vr, panicked, signed, imp, nprocs,
                   run, der, stk, gor, fold>>

\* Verify returns to its caller
VerifyReturn ==
    /\ vr # <<>>
    /\ vr' = <<>>
    /\ UNCHANGED <<priv, pub, rootMem, exports, lastSig, panicked, signed, imp, nprocs, kept, run, der, stk, gor, fold>>

NCpus == 1..MaxCpu
ParamSeeds == [sks |-> <<"in", "sks">>, skp |-> <<"in", "skp">>, ps |-> <<"in", "ps">>]

(***************************************************************************)
(* Sign called from two goroutines on one key, statement by statement.     *)
(* gor[1] is                                                               *)
(*   calls[g]   the call of goroutine g: pc is "idle" (no call, or the     *)
(*              call has returned out), "body" (before                     *)
(*              createSignatureBody), "emit" (before the xmssSig is made   *)
(*              and serialised), "refresh", "build", "load" and "store"    *)
(*              (in traverse, leaf++ being a load and a store); r, sig,    *)
(*              out and tmp are the locals r, sigBody.sig, result and the  *)
(*              value loaded for leaf++                                    *)
(*   writes     history: the number of stores to priv.m.leaf; seen is the  *)
(*              value it had when the call read the index of its xmssSig   *)
(***************************************************************************)
Goroutines == {1, 2}

NoCall == [pc |-> "idle", msg |-> "", r |-> <<>>, sig |-> <<>>, out |-> <<>>,
           tmp |-> 0, seen |-> 0 - 1]

GorOf == IF gor = <<>> THEN [calls |-> [g \in Goroutines |-> NoCall], writes |-> 0]
         ELSE gor[1]

\* the calls in progress
Running == {g \in Goroutines : GorOf.calls[g].pc # "idle"}

\* the hashMsg key r of Sign, for the value leaf read from priv.m.leaf
signR(key, root, leaf) ==
    CopyAt(CopyAt(CopyAt(Zeros(32 * 3), 0,
                         ToBytes(PRFsum(key.msgPRF, indexWords(leaf)))),
                  32, ToBytes(root)),
           64, index32(leaf))

\* sigIndex taking the index from the bytes of r
sigIndexOfR(key, r) == Uint32(Slice(r, 92, 96))

\* the index Sign puts into the xmssSig: priv.m.leaf, read once more
sigIndex(key, r) == key.m.leaf

\* Sign up to hashMsg; the model stops after MaxCalls calls
SignEnter(s, g, msg) ==
    /\ ~panicked
    /\ s \in Live
    /\ priv[s].Height >= 1
    /\ GorOf.calls[g].pc = "idle"
    /\ GorOf.writes + Cardinality(Running) < MaxCalls
    /\ gor' = <<[GorOf EXCEPT !.calls[g] =
                    [NoCall EXCEPT !.pc = "body", !.msg = msg,
                                   !.r = signR(priv[s], rootMem[priv[s].root],
                                               priv[s].m.leaf)]]>>
    /\ UNCHANGED <<priv, pub, rootMem, exports, lastSig, vr, panicked, signed, imp, nprocs,
                   kept, run, der, stk, fold>>

\* sigBody := priv.createSignatureBody(hmsg); sigBody.auth shares the
\* array of priv.m.auth
SignBody(s, g) ==
    /\ ~panicked
    /\ GorOf.calls[g].pc = "body"
    /\ gor' = <<[GorOf EXCEPT !.calls[g].pc = "emit",
                               !.calls[g].sig =
                                   createSignatureBody(priv[s], priv[s].m,
                                       HashMsg(GorOf.calls[g].r, GorOf.calls[g].msg)).sig]>>
    /\ UNCHANGED <<priv, pub, rootMem, exports, lastSig, vr, panicked, signed, imp, nprocs,
                   kept, run, der, stk, fold>>

\* sig := &xmssSig{index: priv.m.leaf, ...}; result := sig.bytes()
SignEmit(s, g) ==
    /\ ~panicked
    /\ GorOf.calls[g].pc = "emit"
    /\ gor' = <<[GorOf EXCEPT !.calls[g].pc = "refresh",
                               !.calls[g].seen = GorOf.writes,
                               !.calls[g].out =
                                   sigBytes(sigOfBody(sigIndex(priv[s], GorOf.calls[g].r),
                                                      GorOf.calls[g].r,
                                                      [sig |-> GorOf.calls[g].sig,
                                                       auth |-> priv[s].m.auth]))]>>
    /\ UNCHANGED <<priv, pub, rootMem, exports, lastSig, vr, panicked, signed, imp, nprocs,
                   kept, run, der, stk, fold>>

\* priv.m.refreshAuth()
SignRefresh(s, g) ==
    /\ ~panicked
    /\ GorOf.calls[g].pc = "refresh"
    /\ gor' = <<[GorOf EXCEPT !.calls[g].pc = "build"]>>
    /\ priv' = [priv EXCEPT ![s].m = refreshAuth(priv[s].m).m]
    /\ panicked' = refreshAuth(priv[s].m).fault
    /\ UNCHANGED <<pub, rootMem, exports, lastSig, vr, signed, imp, nprocs,
                   kept, run, der, stk, fold>>

\* priv.build()
SignBuild(s, g) ==
    /\ ~panicked
    /\ GorOf.calls[g].pc = "build"
    /\ gor' = <<[GorOf EXCEPT !.calls[g].pc = "load"]>>
    /\ priv' = [priv EXCEPT ![s].m = build(priv[s].m, priv[s])]
    /\ UNCHANGED <<pub, rootMem, exports, lastSig, vr, panicked, signed, imp, nprocs,
                   kept, run, der, stk, fold>>

\* priv.m.leaf++: the load
SignLoad(s, g) ==
    /\ ~panicked
    /\ GorOf.calls[g].pc = "load"
    /\ gor' = <<[GorOf EXCEPT !.calls[g].pc = "store",
                               !.calls[g].tmp = priv[s].m.leaf]>>
    /\ UNCHANGED <<priv, pub, rootMem, exports, lastSig, vr, panicked, signed, imp, nprocs,
                   kept, run, der, stk, fold>>

\* priv.m.leaf++: the store; return result
SignStore(s, g) ==
    /\ ~panicked
    /\ GorOf.calls[g].pc = "store"
    /\ gor' = <<[GorOf EXCEPT !.calls[g].pc = "idle", !.writes = @ + 1]>>
    /\ priv' = [priv EXCEPT ![s].m.leaf = GorOf.calls[g].tmp + 1]
    /\ UNCHANGED <<pub, rootMem, exports, lastSig, vr, panicked, signed, imp, nprocs,
                   kept, run, der, stk, fold>>

(***************************************************************************)
(* ltree on a vector of its own.  fold[1] is                               *)
(*   pk         the vector of nodes the caller passes                      *)
(*   layer, tree, idx   the leaf the L-tree address is that of             *)
(*   done, node, addrs   whether ltree has returned, and then the value it *)
(*              returned and the address as it left it                     *)
(***************************************************************************)
\* the vectors: l nodes, all different or all the same
NodeVector(l, kind) == [j \in 1..l |-> <<"in", "pk", IF kind = "same" THEN 0 ELSE j>>]
Wlens == 1..MaxWlen \cup {wlen}

\* pk := make(wotsPubKey, l) filled by the caller; addrs as newleaf and
\* rootFromSig set it before the call
FoldNew(l, kind, layer, tree, idx) ==
    /\ Idle
    /\ Live = {}
    /\ run = <<>>
    /\ stk = <<>>
    /\ fold = <<>>
    /\ fold' = <<[pk |-> NodeVector(l, kind), layer |-> layer, tree |-> tree,
                  idx |-> idx, done |-> FALSE, node |-> <<>>, addrs |-> NewAddr]>>
    /\ UNCHANGED <<priv, pub, rootMem, exports, lastSig, vr, panicked, signed, imp, nprocs,
                   kept, run, der, stk, gor>>

\* nn := pk.ltree(pubPRF, addrs)
FoldCall ==
    /\ fold # <<>>
    /\ ~fold[1].done
    /\ fold' = <<[fold[1] EXCEPT
                     !.done = TRUE,
                     !.node = ltreeOfLen(fold[1].pk, Len(fold[1].pk), ParamSeeds.ps,
                                         LtreeAddrOf(OtsAddr(fold[1].layer, fold[1].tree,
                                                             fold[1].idx),
                                                     fold[1].idx))[1],
                     !.addrs = ltreeOfLen(fold[1].pk, Len(fold[1].pk), ParamSeeds.ps,
                                          LtreeAddrOf(OtsAddr(fold[1].layer, fold[1].tree,
                                                              fold[1].idx),
                                                      fold[1].idx))[2]]>>
    /\ UNCHANGED <<priv, pub, rootMem, exports, lastSig, vr, panicked, signed, imp, nprocs,
                   kept, run, der, stk, gor>>

(***************************************************************************)
(* A stack of its own, as the workers of initMerkle hold one, with the     *)
(* loop of updateSub iteration by iteration.  stk[1] is                    *)
(*   s          the stack                                                  *)
(*   pc, n      "idle" between two calls, "loop" in the loop of updateSub  *)
(*              with n iterations left                                     *)
(*   start, base, budget   history: the first leaf of the stack, the stack  *)
(*              at the entry of the last call and the budget nn of it      *)
(*   prev       history: the stack before the last iteration (before the   *)
(*              call if the call made none)                                *)
(***************************************************************************)
\* the key the stack computes leaves of
StackKey ==
    [Height |-> MaxH, publicSeed |-> ParamSeeds.ps, root |-> 1,
     msgPRF |-> ParamSeeds.skp, wotsPRF |-> ParamSeeds.sks]

\* s := stack{height: height, leaf: start, ...}
StackNew(height, start) ==
    /\ Idle
    /\ Live = {}
    /\ run = <<>>
    /\ stk = <<>>
    /\ stk' = <<[s |-> [stack |-> <<>>, height |-> height, leaf |-> start,
                        layer |-> 0, tree |-> 0],
                 pc |-> "idle", n |-> 0, start |-> start,
                 base |-> [stack |-> <<>>, height |-> height, leaf |-> start,
                           layer |-> 0, tree |-> 0],
                 budget |-> 0,
                 prev |-> [stack |-> <<>>, height |-> height, leaf |-> start,
                           layer |-> 0, tree |-> 0]]>>
    /\ UNCHANGED <<priv, pub, rootMem, exports, lastSig, vr, panicked, signed, imp, nprocs,
                   kept, run, der, gor, fold>>

\* s.update(nn, priv) up to the loop: the test of the top of the stack is
\* made here, once; the model stops a stack MaxOver leaves after the
\* 2^height leaves of its subtree
UpdateCall(nn) ==
    /\ stk # <<>>
    /\ stk[1].pc = "idle"
    /\ stk[1].s.leaf < stk[1].start + Pow2(stk[1].s.height) + MaxOver
    /\ stk' = <<[stk[1] EXCEPT
                    !.pc = IF Len(stk[1].s.stack) > 0
                              /\ top(stk[1].s).height = stk[1].s.height
                           THEN "idle" ELSE "loop",
                    !.n = IF Len(stk[1].s.stack) > 0
                             /\ top(stk[1].s).height = stk[1].s.height
                          THEN 0 ELSE nn,
                    !.base = stk[1].s, !.budget = nn, !.prev = stk[1].s]>>
    /\ UNCHANGED <<priv, pub, rootMem, exports, lastSig, vr, panicked, signed, imp, nprocs,
                   kept, run, der, gor, fold>>

\* one iteration of the loop of updateSub
UpdateIter ==
    /\ stk # <<>>
    /\ stk[1].pc = "loop"
    /\ stk' = <<[stk[1] EXCEPT
                    !.s = updateStep(stk[1].s, StackKey, "leaf", <<>>)[1],
                    !.prev = stk[1].s,
                    !.n = @ - 1,
                    !.pc = IF stk[1].n = 1 THEN "idle" ELSE "loop"]>>
    /\ UNCHANGED <<priv, pub, rootMem, exports, lastSig, vr, panicked, signed, imp, nprocs,
                   kept, run, der, gor, fold>>

\* the budgets of the calls of update, up to the one a worker gives the
\* highest of these stacks
Budgets == 1..(Pow2(MaxH) - 1)


\* one key: generation, signing and verification
Next ==
    \/ \E h \in Heights, c \in NCpus : NewXMSSKeyPair(1, h, UserSeeds[1], c)
    \/ \E h \in ParamHeights, lt \in LayerTrees, c \in NCpus :
          NewXMSSKeyPairWithParams(1, h, ParamSeeds.sks, ParamSeeds.skp, ParamSeeds.ps,
                                   lt[1], lt[2], c)
    \/ \E msg \in Messages : Sign(1, msg)
    \/ \E t \in Tampers, msg \in Messages : VerifyCall(1, t, msg)
    \/ VerifyReturn

Spec == Init /\ [][Next]_vars

\* two keys: generation, signing, export from the first and import into
\* the second
NextIO ==
    \/ \E s \in Slots : \E h \in IOHeights[s], c \in NCpus :
          NewXMSSKeyPair(s, h, UserSeeds[s], c)
    \/ \E s \in Slots : Sign(s, "m1")
    \/ Export(1)
    \/ \E c \in NCpus : Import(2, c)

SpecIO == Init /\ [][NextIO]_vars

\* one key: generation and signing, the caller keeping signatures
NextKeep ==
    \/ \E h \in Heights, c \in NCpus : NewXMSSKeyPair(1, h, UserSeeds[1], c)
    \/ \E msg \in Messages : Sign(1, msg)
    \/ Keep

SpecKeep == Init /\ [][NextKeep]_vars

\* one key: generation, signing, PKCS#8 encoding, and decoding into a
\* second key
NextPKCS ==
    \/ \E h \in Heights, c \in NCpus : NewXMSSKeyPair(1, h, UserSeeds[1], c)
    \/ Sign(1, "m1")
    \/ MarshalPKCS8PrivateKey(1)
    \/ \E c \in NCpus : ParsePKCS8PrivateKey(2, c)

SpecPKCS == Init /\ [][NextPKCS]_vars

\* key generation with the goroutines of initMerkle interleaved
NextInit ==
    \/ \E h \in Heights, c \in NCpus : InitStart(1, h, UserSeeds[1], c)
    \/ Spawn
    \/ \E j \in 1..Pow2(MaxH) : WorkerWrite(j)
    \/ \E j \in 1..Pow2(MaxH) : WorkerDone(j)
    \/ MainEnter
    \/ MainStep
    \/ InitFinish

SpecInit == Init /\ [][NextInit]_vars

\* the stacks: one of its own, those of initMerkle with the goroutines
\* interleaved, and those of the traversal under Sign
NextStack ==
    \/ \E h \in 0..(MaxH - 1), k \in {0, 1} : StackNew(h, k * Pow2(h))
    \/ \E nn \in Budgets : UpdateCall(nn)
    \/ UpdateIter
    \/ \E h \in Heights, c \in NCpus : stk = <<>> /\ InitStart(1, h, UserSeeds[1], c)
    \/ Spawn
    \/ \E j \in 1..Pow2(MaxH) : WorkerWrite(j)
    \/ \E j \in 1..Pow2(MaxH) : WorkerDone(j)
    \/ MainEnter
    \/ MainStep
    \/ InitFinish
    \/ Sign(1, "m1")

SpecStack == Init /\ [][NextStack]_vars

\* one key: generation, and Sign from two goroutines
NextRace ==
    \/ \E h \in Heights : NewXMSSKeyPair(1, h, UserSeeds[1], 1)
    \/ \E g \in Goroutines : SignEnter(1, g, IF g = 1 THEN "m1" ELSE "m2")
    \/ \E g \in Goroutines : SignBody(1, g)
    \/ \E g \in Goroutines : SignEmit(1, g)
    \/ \E g \in Goroutines : SignRefresh(1, g)
    \/ \E g \in Goroutines : SignBuild(1, g)
    \/ \E g \in Goroutines : SignLoad(1, g)
    \/ \E g \in Goroutines : SignStore(1, g)

SpecRace == Init /\ [][NextRace]_vars

\* ltree on vectors of 1..MaxWlen and of wlen nodes
NextFold ==
    \/ \E l \in Wlens, kind \in {"same", "other"}, lt \in {<<0, 0>>, <<1, 0>>, <<0, 1>>},
          idx \in 0..1 : FoldNew(l, kind, lt[1], lt[2], idx)
    \/ FoldCall

SpecFold == Init /\ [][NextFold]_vars

(***************************************************************************)
(* Properties.                                                             *)
(***************************************************************************)
\* the key of slot s was made by NewXMSSKeyPair and never imported into
ByKeyPair(s) == s \in Live /\ imp[s] = <<>> /\ priv[s].wotsPRF[1] = "hmac"

\* the signature the caller holds was made with one of the 2^H leaves
InTree == lastSig[1].nth < Pow2(lastSig[1].height)

\* the byte length of a signature of a key of height h
SigLen(h) == 4 + 32 * (68 + h)

\* C1: for a key pair made by NewXMSSKeyPair, each of the first 2^H
\* signatures verifies under the public key key generation returned, for the
\* message that was signed.
C1_AllSignaturesVerify ==
    (vr # <<>> /\ vr[1].t = "none" /\ vr[1].msg = lastSig[1].msg
        /\ ByKeyPair(lastSig[1].slot) /\ vr[1].s = lastSig[1].slot /\ InTree)
    => vr[1].ok

\* the last of the 2^MaxH signatures of a key has been verified
C1_Witness ==
    /\ vr # <<>> /\ vr[1].t = "none" /\ vr[1].msg = lastSig[1].msg
    /\ ByKeyPair(1) /\ lastSig[1].height = MaxH
    /\ lastSig[1].nth = Pow2(MaxH) - 1
    /\ vr[1].ok

\* the node of height h and index j of the tree of the key of slot s
NodeOf(s, h, j) ==
    MerkleNode(priv[s].wotsPRF, priv[s].publicSeed, priv[s].m.layer,
               AddrSetTree(NewAddr, priv[s].m.tree)[2],
               AddrSetTree(NewAddr, priv[s].m.tree)[3], h, j)

\* C2: between operations, while the next leaf i is below 2^H, auth[h] is
\* the node of height h and index (i >> h) XOR 1, for every h below H.
C2_AuthPath ==
    \A s \in Live :
        (~panicked /\ priv[s].m.leaf < Pow2(priv[s].Height))
        => \A h \in 0..(priv[s].Height - 1) :
              priv[s].m.auth[h + 1]
                  = NodeOf(s, h, XorPow(Shr(priv[s].m.leaf, h), 0))

\* a key of height MaxH is about to use its last leaf
C2_Witness ==
    /\ 1 \in Live
    /\ priv[1].Height = MaxH
    /\ priv[1].m.leaf = Pow2(MaxH) - 1
    /\ signed[1] = Pow2(MaxH) - 1
    /\ priv[1].m.auth[MaxH] = NodeOf(1, MaxH - 1, 0)

\* C3: Sign on a key whose next leaf is 2^H emits no signature and leaves
\* the next leaf at 2^H: no signature carries an idx of 2^H or more and no
\* key's next leaf passes 2^H.
C3_KeyExhausted ==
    /\ \A s \in Live : priv[s].m.leaf <= Pow2(priv[s].Height)
    /\ lastSig # <<>> => Uint32(lastSig[1].bytes) < Pow2(lastSig[1].height)

\* C6: for a fresh key the idx of the i-th signature (from 0) is i, and
\* the next leaf is the number of signatures made: each Sign advances it
\* by one.
C6_IndexCounts ==
    /\ lastSig # <<>> => Uint32(lastSig[1].bytes) = lastSig[1].nth
    /\ \A s \in Live : imp[s] = <<>> => priv[s].m.leaf = signed[s]

\* a key has made its third signature
C6_Witness ==
    /\ lastSig # <<>>
    /\ lastSig[1].nth = 2
    /\ Uint32(lastSig[1].bytes) = 2
    /\ priv[1].m.leaf = 3

\* C10: a signature of a key of height H is 4 + 32*(68 + H) bytes long and
\* bytes2sig gives back the idx, r, the 67 WOTS+ values and the H auth
\* nodes that were serialised.
C10_RoundTrip ==
    lastSig # <<>> =>
        /\ BLen(lastSig[1].bytes) = SigLen(lastSig[1].height)
        /\ bytes2sig(lastSig[1].bytes, lastSig[1].height)
               = [err |-> FALSE, index |-> lastSig[1].x.index, r |-> lastSig[1].x.r,
                  sig |-> lastSig[1].x.sig, auth |-> lastSig[1].x.auth]
        /\ Len(lastSig[1].x.sig) = wlen
        /\ Len(lastSig[1].x.auth) = lastSig[1].height

\* a key of height MaxH has signed with a leaf other than the first
C10_Witness ==
    /\ lastSig # <<>>
    /\ lastSig[1].height = MaxH
    /\ lastSig[1].nth = 1
    /\ BLen(lastSig[1].bytes) = SigLen(MaxH)
    /\ bytes2sig(lastSig[1].bytes, MaxH).index = 1

\* the bytes and the public key the Verify call in vr was given
VerifiedBytes == Tamper(lastSig[1].bytes, vr[1].t)
VerifiedKey == PubOf(vr[1].s, vr[1].t)

\* C7: Verify under a public key of height H returns false for every byte
\* string whose length is not 4 + 32*(1 + 67 + H): shorter than the header,
\* with trailing bytes, or of a key of another height.
C7_RejectsLength ==
    (vr # <<>> /\ BLen(VerifiedBytes) # 4 + 32 * (1 + 67 + VerifiedKey.Height))
    => ~vr[1].ok

\* the seeds and the root array of the key of slot s
SeedsOf(s) ==
    [Height |-> priv[s].Height, publicSeed |-> priv[s].publicSeed,
     root |-> priv[s].root, msgPRF |-> priv[s].msgPRF, wotsPRF |-> priv[s].wotsPRF]

\* C8: the state initMerkle leaves with any worker exponent p (root, auth
\* and the seeded stacks) is the state of the single-threaded build, p = 0.
C8_WorkersAgree ==
    \A s \in Live :
        (signed[s] = 0 /\ ~panicked)
        => /\ priv[s].m = initRun(SeedsOf(s), priv[s].Height, priv[s].m.layer,
                                  priv[s].m.tree, 0).m
           /\ rootMem[priv[s].root]
                  = initRun(SeedsOf(s), priv[s].Height, priv[s].m.layer,
                            priv[s].m.tree, 0).root

\* a key of height MaxH was built by four workers (p = 2)
C8_Witness ==
    /\ 1 \in Live
    /\ signed[1] = 0
    /\ priv[1].Height = MaxH
    /\ nprocs[1] = 2
    /\ rootMem[priv[1].root] = NodeOf(1, MaxH, 0)

\* C9: a signature for m does not verify for another message, with idx, r,
\* a WOTS+ value or an auth node changed, or under a key with another root.
C9_Unforgeable ==
    (vr # <<>> /\ (vr[1].msg # lastSig[1].msg \/ vr[1].t \in Fields
                     \/ vr[1].t = "pkroot"))
    => ~vr[1].ok

\* a signature that verifies as it is was tried with an auth node changed
C9_Witness ==
    /\ vr # <<>>
    /\ vr[1].t = "auth"
    /\ ByKeyPair(1) /\ InTree
    /\ Verify(PubOf(1, "none"), lastSig[1].bytes, lastSig[1].msg)
    /\ ~vr[1].ok

\* C4: after k signatures Export returns Index = k, and after Import of
\* that export the key's next leaf is k.
C4_ImportKeepsIndex ==
    /\ exports # <<>> => exports[1].Index = exports[1].emitted
    /\ \A s \in Live :
          (imp[s] # <<>> /\ signed[s] = 0 /\ ~panicked)
          => priv[s].m.leaf = imp[s][1].Index

\* slot s holds the import of an export of slot o, neither has signed
\* since the export was taken, and the exported index was below 2^H
Twins(o, s) ==
    /\ o \in Live /\ s \in Live /\ ~panicked
    /\ imp[s] # <<>> /\ imp[s][1].src = o /\ signed[s] = 0
    /\ imp[o] = <<>> /\ signed[o] = imp[s][1].Index
    /\ imp[s][1].Index < Pow2(priv[o].Height)

\* C5: a key imported from an export and the key the export was taken
\* from, both signing the same message next, return the same bytes, and
\* these verify under the public key.
C5_ImportedSignsAlike ==
    \A o \in Slots, s \in Slots :
        (o # s /\ Twins(o, s))
        => \A msg \in Messages :
              /\ SignBytes(priv[s], rootMem[priv[s].root], msg)
                     = SignBytes(priv[o], rootMem[priv[o].root], msg)
              /\ Verify(PubOf(o, "none"),
                        SignBytes(priv[s], rootMem[priv[s].root], msg), msg)

\* the randomiser r of a serialised signature
RandomiserOf(b) == Slice(b, 4, 4 + n)

\* C11: two signatures of one key for the same message, made with different
\* leaves, differ as byte strings, and they differ in the randomiser r.
C11_DistinctSignatures ==
    (kept # <<>> /\ lastSig # <<>> /\ kept[1].slot = lastSig[1].slot
        /\ kept[1].msg = lastSig[1].msg /\ kept[1].nth # lastSig[1].nth)
    => /\ kept[1].bytes # lastSig[1].bytes
       /\ RandomiserOf(kept[1].bytes) # RandomiserOf(lastSig[1].bytes)

\* the first and the last signature of a key of height MaxH, same message
C11_Witness ==
    /\ kept # <<>> /\ lastSig # <<>>
    /\ kept[1].msg = lastSig[1].msg
    /\ kept[1].nth = 0 /\ lastSig[1].nth = Pow2(MaxH) - 1
    /\ lastSig[1].height = MaxH
    /\ kept[1].bytes # lastSig[1].bytes

\* C12: key generation with height 0 produces no key, so no key of height 0
\* exists and Sign never runs on one.
C12_RejectsHeightZero == \A s \in Live : priv[s].Height # 0

\* C14: ParsePKCS8PrivateKey of what MarshalPKCS8PrivateKey made of a key
\* completes without fault and returns a key with the height, next leaf,
\* seeds and root of that key.
C14_PKCS8RoundTrip ==
    (der # <<>> /\ der[1].parsed # "no")
    => /\ der[1].parsed = "ok"
       /\ 2 \in Live
       /\ priv[2].Height = der[1].height
       /\ priv[2].m.leaf = der[1].Index
       /\ priv[2].wotsPRF = der[1].SecretKeySeed
       /\ priv[2].msgPRF = der[1].SecretKeyPRF
       /\ priv[2].publicSeed = der[1].PublicSeed
       /\ rootMem[priv[2].root] = der[1].Root

\* C13: for a key pair made by NewXMSSKeyPairWithParams at any layer and
\* tree, each of the first 2^H signatures verifies under the public key key
\* generation returned, for the message that was signed.
C13_ParamKeysVerify ==
    (vr # <<>> /\ vr[1].t = "none" /\ vr[1].msg = lastSig[1].msg
        /\ vr[1].s = lastSig[1].slot /\ InTree
        /\ priv[lastSig[1].slot].wotsPRF = ParamSeeds.sks)
    => vr[1].ok

\* C15: whenever the next refreshAuth copies the top of stacks[h] (the next
\* leaf i has (i+1) mod 2^h = 0 and i+1 < 2^H), that stack holds exactly
\* one node, of height h and index ((i+1) >> h) XOR 1.
C15_StacksReady ==
    \A s \in Live :
        (~panicked /\ priv[s].m.leaf + 1 < Pow2(priv[s].Height))
        => \A h \in 0..(priv[s].Height - 1) :
              ((priv[s].m.leaf + 1) % Pow2(h) = 0)
              => /\ Len(priv[s].m.stacks[h + 1].stack) = 1
                 /\ priv[s].m.stacks[h + 1].stack[1].height = h
                 /\ priv[s].m.stacks[h + 1].stack[1].index
                        = XorPow(Shr(priv[s].m.leaf + 1, h), 0)

\* a key of height MaxH has signed 2^(MaxH-1) - 1 times: the next
\* refreshAuth copies from every stack
C15_Witness ==
    /\ 1 \in Live /\ ~panicked
    /\ priv[1].Height = MaxH
    /\ priv[1].m.leaf = Pow2(MaxH - 1) - 1
    /\ signed[1] = Pow2(MaxH - 1) - 1
    /\ top(priv[1].m.stacks[MaxH]).height = MaxH - 1

\* node record nd lies in a tree of height H
InRange(nd, H) == nd.height <= H /\ nd.index < Pow2(H - nd.height)

\* C16: after key generation and up to 2^H Sign calls, every node on a
\* stack, and every node in auth, has index < 2^(H - height).
C16_NodesInRange ==
    \A s \in Live :
        (~panicked /\ signed[s] <= Pow2(priv[s].Height))
        => /\ \A h \in 1..priv[s].Height :
                 \A k \in 1..Len(priv[s].m.stacks[h].stack) :
                     InRange(priv[s].m.stacks[h].stack[k], priv[s].Height)
           /\ \A h \in 1..priv[s].Height :
                 priv[s].m.auth[h][1] = "node"
                     /\ priv[s].m.auth[h][8] < Pow2(priv[s].Height - priv[s].m.auth[h][7])

\* C17: in initMerkle with p > 0 workers the main goroutine pops a subtree
\* root only when every worker has finished; worker j writes slot j-1 only;
\* the roots are popped in the order of the subtrees 1, 2, ..., 2^p - 1,
\* each once, and all of them by the end.
C17_JoinBeforePop ==
    run # <<>> =>
        /\ ~panicked
        /\ \A k \in 1..Len(run[1].popped) :
              /\ run[1].popped[k].joined
              /\ run[1].popped[k].node
                     = <<worker(run[1].key, run[1].h, run[1].nproc, run[1].layer,
                                run[1].tree, k)>>
        /\ \A j \in Workers(run[1]) : run[1].wrote[j] \in {0 - 1, j - 1}
        /\ Len(run[1].popped) <= Pow2(run[1].nproc) - 1
        /\ run[1].mpc = "done" => Len(run[1].popped) = Pow2(run[1].nproc) - 1

\* initMerkle of a key of height MaxH with three workers (p = 2) is done
C17_Witness ==
    /\ run # <<>>
    /\ run[1].mpc = "done"
    /\ run[1].h = MaxH
    /\ run[1].nproc = 2
    /\ Len(run[1].popped) = 3
    /\ run[1].popped[3].node[1].index = 3
    /\ run[1].wrote = <<0, 1, 2>>

\* low() of stacks[h] of the merkle state m
LowOf(m, h) == low(m.stacks[h + 1])

\* every stack of m has its top at its target height
AllComplete(m) == \A h \in 0..(m.height - 1) : LowOf(m, h) = MaxUint32

\* the height whose low() is minimal, the lowest such
MinFocus(m) ==
    CHOOSE f \in 0..(m.height - 1) :
        \A h \in 0..(m.height - 1) :
            /\ LowOf(m, f) <= LowOf(m, h)
            /\ h < f => LowOf(m, h) > LowOf(m, f)

\* m1 is m after one iteration of build: the stack of MinFocus(m) advanced
\* by one step, no stack with low() = infinity changed
FocusStep(m, m1, key) ==
    /\ m1 = [m EXCEPT !.stacks[MinFocus(m) + 1] = goUpdate(@, 1, key)]
    /\ \A h \in 0..(m.height - 1) :
          LowOf(m, h) = MaxUint32 => m1.stacks[h + 1] = m.stacks[h + 1]

\* FocusStep holds of each of the next k iterations of build from m
RECURSIVE FocusSteps(_, _, _)
FocusSteps(m, key, k) ==
    \/ k = 0
    \/ /\ FocusStep(m, buildLoop(m, key, 1), key)
       /\ FocusSteps(buildLoop(m, key, 1), key, k - 1)

\* the key of slot s is between operations and its next traverse gets as
\* far as build
Buildable(s) ==
    /\ ~panicked /\ vr = <<>>
    /\ priv[s].Height >= 1
    /\ ~refreshAuth(priv[s].m).fault

\* C18: each iteration of build() advances the stack whose low() is
\* minimal, the lowest on a tie, and changes no stack whose top is at its
\* target height, also when every stack is complete.
C18_LowestFirst ==
    \A s \in Live :
        Buildable(s)
        => FocusSteps(refreshAuth(priv[s].m).m, priv[s], 2 * priv[s].Height - 1)

\* the last iteration of a build of a key of height MaxH finds every stack
\* complete and changes nothing
C18_Witness ==
    /\ 1 \in Live /\ Buildable(1)
    /\ priv[1].Height = MaxH
    /\ AllComplete(buildLoop(refreshAuth(priv[1].m).m, priv[1], 2 * MaxH - 2))
    /\ build(refreshAuth(priv[1].m).m, priv[1])
           = buildLoop(refreshAuth(priv[1].m).m, priv[1], 2 * MaxH - 2)

\* the elementary steps that took stack st to st1: a leaf push adds one to
\* leaf and to the length, a combine takes one from the length
StepsOn(st, st1) == 2 * (st1.leaf - st.leaf) - (Len(st1.stack) - Len(st.stack))

\* the elementary steps that took the stacks of m to those of m1, heights h up
RECURSIVE StepsMade(_, _, _)
StepsMade(m, m1, h) ==
    IF h >= m.height THEN 0
    ELSE StepsOn(m.stacks[h + 1], m1.stacks[h + 1]) + StepsMade(m, m1, h + 1)

\* of the next k iterations of build from m, those that find some stack
\* incomplete; StepEach: each iteration makes one step if it does, else none
RECURSIVE BusyIters(_, _, _)
BusyIters(m, key, k) ==
    IF k = 0 THEN 0
    ELSE (IF AllComplete(m) THEN 0 ELSE 1) + BusyIters(buildLoop(m, key, 1), key, k - 1)

RECURSIVE StepEach(_, _, _)
StepEach(m, key, k) ==
    \/ k = 0
    \/ /\ StepsMade(m, buildLoop(m, key, 1), 0) = (IF AllComplete(m) THEN 0 ELSE 1)
       /\ StepEach(buildLoop(m, key, 1), key, k - 1)

\* C19: each call of build() performs exactly 2H - 1 elementary stack
\* steps (leaf pushes and combines).
C19_ExactSteps ==
    \A s \in Live :
        Buildable(s)
        => StepsMade(refreshAuth(priv[s].m).m,
                     build(refreshAuth(priv[s].m).m, priv[s]), 0)
               = 2 * priv[s].Height - 1

\* C19 (amended): each call of build() runs 2H - 1 iterations, each
\* performing one elementary step if some stack is incomplete and none if
\* every stack is complete: at most 2H - 1 elementary steps.
C19_AtMostSteps ==
    \A s \in Live :
        Buildable(s)
        => /\ StepEach(refreshAuth(priv[s].m).m, priv[s], 2 * priv[s].Height - 1)
           /\ StepsMade(refreshAuth(priv[s].m).m,
                        build(refreshAuth(priv[s].m).m, priv[s]), 0)
                  = BusyIters(refreshAuth(priv[s].m).m, priv[s], 2 * priv[s].Height - 1)
           /\ StepsMade(refreshAuth(priv[s].m).m,
                        build(refreshAuth(priv[s].m).m, priv[s]), 0)
                  <= 2 * priv[s].Height - 1

\* a build of a key of height MaxH that uses its whole budget of steps
C19_Witness ==
    /\ 1 \in Live /\ Buildable(1)
    /\ priv[1].Height = MaxH
    /\ StepsMade(refreshAuth(priv[1].m).m,
                 build(refreshAuth(priv[1].m).m, priv[1]), 0) = 2 * MaxH - 1

\* ((i + 2^h) XOR 2^h) for a multiple i of 2^h, by arithmetic: i + 2^h is
\* (i / 2^h + 1) * 2^h, and the XOR flips the lowest bit of the factor
StartNode(i, h) ==
    Pow2(h) * (IF (i \div Pow2(h) + 1) % 2 = 1 THEN i \div Pow2(h)
               ELSE i \div Pow2(h) + 2)

\* r is m after refreshAuth: heights h with (leaf+1) mod 2^h = 0 have the
\* old top in auth[h] and an empty stack with target h starting at
\* StartNode(leaf+1, h); all else is as in m
RefreshFrame(m, r) ==
    /\ \A h \in 0..(m.height - 1) :
          IF (m.leaf + 1) % Pow2(h) = 0
          THEN /\ r.auth[h + 1] = top(m.stacks[h + 1]).node
               /\ r.stacks[h + 1]
                      = [stack |-> <<>>, height |-> h, leaf |-> StartNode(m.leaf + 1, h),
                         layer |-> m.stacks[h + 1].layer, tree |-> m.stacks[h + 1].tree]
          ELSE /\ r.auth[h + 1] = m.auth[h + 1]
               /\ r.stacks[h + 1] = m.stacks[h + 1]
    /\ <<r.leaf, r.height, r.layer, r.tree>> = <<m.leaf, m.height, m.layer, m.tree>>
    /\ Len(r.auth) = m.height /\ Len(r.stacks) = m.height

\* b is r after build: leaf, auth and the other fields are those of r
BuildFrame(r, b) ==
    <<b.leaf, b.height, b.layer, b.tree, b.auth>>
        = <<r.leaf, r.height, r.layer, r.tree, r.auth>>

\* the seeds and the root of the key of slot s are those key generation
\* from UserSeeds[s] gave it
AsGenerated(s) ==
    /\ SeedsOf(s) = [Height |-> priv[s].Height, publicSeed |-> HMAC(UserSeeds[s], 3),
                     root |-> s, msgPRF |-> HMAC(UserSeeds[s], 2),
                     wotsPRF |-> HMAC(UserSeeds[s], 1)]
    /\ rootMem[priv[s].root] = NodeOf(s, priv[s].Height, 0)

\* C20: refreshAuth changes auth[h] and stacks[h] only for the heights h
\* with (leaf+1) mod 2^h = 0, where the stack becomes empty with target h
\* and start leaf ((leaf+1) + 2^h) XOR 2^h; refreshAuth and build leave the
\* leaf counter, the root and the seeds as they were.
C20_RefreshFrame ==
    \A s \in Live :
        /\ Buildable(s)
           => /\ RefreshFrame(priv[s].m, refreshAuth(priv[s].m).m)
              /\ BuildFrame(refreshAuth(priv[s].m).m,
                            build(refreshAuth(priv[s].m).m, priv[s]))
        /\ ByKeyPair(s) => AsGenerated(s)

\* a key of height MaxH has signed once: the next refreshAuth renews the
\* stacks of heights 0 and 1 and leaves the others
C20_Witness ==
    /\ 1 \in Live /\ Buildable(1) /\ ByKeyPair(1)
    /\ priv[1].Height = MaxH
    /\ priv[1].m.leaf = 1 /\ signed[1] = 1
    /\ refreshAuth(priv[1].m).m.stacks[2].leaf = 6
    /\ refreshAuth(priv[1].m).m.stacks[MaxH] = priv[1].m.stacks[MaxH]

\* the top of stack s is at the target height of s
Complete(s) == Len(s.stack) > 0 /\ s.stack[Len(s.stack)].height = s.height

\* C21: update(n) performs at most n elementary steps, and a step does
\* nothing once the top of the stack is at the target height: no leaf is
\* pushed onto a completed stack and no node is above the target height,
\* also when the target is reached in the middle of a budget.
C21_UpdateStopsAtTarget ==
    stk # <<>>
    => /\ StepsOn(stk[1].base, stk[1].s) <= stk[1].budget
       /\ Complete(stk[1].prev) => stk[1].s = stk[1].prev
       /\ \A j \in 1..Len(stk[1].s.stack) : stk[1].s.stack[j].height <= stk[1].s.height

\* the node lists of all stacks there are: the stack of its own, the main
\* stack of the initMerkle in progress and the stacks it has seeded, and
\* the traversal stacks of the keys
StacksNow ==
    (IF stk = <<>> THEN {} ELSE {stk[1].s.stack})
    \cup (IF run = <<>> THEN {}
          ELSE {run[1].s.stack}
               \cup {run[1].stacks[k].stack : k \in 1..Len(run[1].stacks)})
    \cup UNION {{priv[s].m.stacks[k].stack : k \in 1..Len(priv[s].m.stacks)} : s \in Live}

\* heights grow from the bottom (the first node) to the top
Increasing(nodes) ==
    \A j \in 1..(Len(nodes) - 1) : nodes[j].height < nodes[j + 1].height

\* heights fall from the bottom to the top, the two nodes on top may be of
\* the same height
Falling(nodes) ==
    \A j \in 1..(Len(nodes) - 1) :
        \/ nodes[j].height > nodes[j + 1].height
        \/ j + 1 = Len(nodes) /\ nodes[j].height = nodes[j + 1].height

\* C22 as stated: in every stack the nodes are in strictly increasing
\* height order from the bottom to the top.
C22_IncreasingHeights == \A nodes \in StacksNow : Increasing(nodes)

\* C22: in every stack (the traversal stacks, the main stack of initMerkle,
\* a worker's stack at every iteration) the heights strictly decrease from
\* the bottom to the top, except that the two nodes on top may be of equal
\* height.
C22_FallingHeights == \A nodes \in StacksNow : Falling(nodes)

\* a stack of its own, within the leaves of its subtree, holds a node of
\* height 1 under two leaves
C22_Witness ==
    /\ stk # <<>>
    /\ Len(stk[1].s.stack) = 3
    /\ stk[1].s.stack[1].height = 1
    /\ stk[1].s.stack[2].height = 0 /\ stk[1].s.stack[3].height = 0
    /\ stk[1].s.leaf <= stk[1].start + Pow2(stk[1].s.height)

\* C23: after key generation and any Sign calls, traversal stack stacks[h]
\* holds at most h+1 nodes, none of height above h, and the heights strictly
\* decrease from the bottom to the top except that the two on top may be
\* equal.
C23_TraversalStacksSmall ==
    \A s \in Live : \A h \in 0..(priv[s].m.height - 1) :
        /\ Len(priv[s].m.stacks[h + 1].stack) <= h + 1
        /\ \A j \in 1..Len(priv[s].m.stacks[h + 1].stack) :
              priv[s].m.stacks[h + 1].stack[j].height <= h
        /\ Falling(priv[s].m.stacks[h + 1].stack)

\* a key that has signed holds two nodes of equal height on a traversal
\* stack of target height above theirs
C23_Witness ==
    /\ 1 \in Live /\ signed[1] > 0 /\ ~panicked
    /\ \E h \in 1..(priv[1].m.height - 1) :
          /\ Len(priv[1].m.stacks[h + 1].stack) = 2
          /\ priv[1].m.stacks[h + 1].stack[1].height
                 = priv[1].m.stacks[h + 1].stack[2].height
          /\ priv[1].m.stacks[h + 1].stack[2].height < h

\* the idx the signature bytes b carry
IdxOf(b) == Uint32(Take(b, 4))

\* the call of goroutine g has made its signature
Emitted(g) == gor # <<>> /\ gor[1].calls[g].seen >= 0

\* C24: two Sign calls on one key that both read the leaf counter before
\* either has incremented it (no store to the counter between the two
\* reads) emit signatures with the same idx; such an interleaving exists
\* (C24_Witness).
C24_UnorderedSignsShareIdx ==
    (Emitted(1) /\ Emitted(2) /\ gor[1].calls[1].seen = gor[1].calls[2].seen)
    => IdxOf(gor[1].calls[1].out) = IdxOf(gor[1].calls[2].out)

\* both calls have returned, the first two calls on a key of height MaxH:
\* their signatures, of different messages, carry idx 0 and both verify
C24_Witness ==
    /\ Emitted(1) /\ Emitted(2)
    /\ gor[1].calls[1].pc = "idle" /\ gor[1].calls[2].pc = "idle"
    /\ gor[1].writes = 2
    /\ priv[1].Height = MaxH
    /\ gor[1].calls[1].msg # gor[1].calls[2].msg
    /\ IdxOf(gor[1].calls[1].out) = 0 /\ IdxOf(gor[1].calls[2].out) = 0
    /\ \A g \in Goroutines :
          Verify(PubOf(1, "none"), gor[1].calls[g].out, gor[1].calls[g].msg)

\* the address ADRS{type = 1, height, index} of the L-tree of fold[1], with
\* the selector km in the last word
RefAddr(height, index, km) ==
    <<fold[1].layer, 0, fold[1].tree, 1, fold[1].idx, height, index, km>>

\* randHash as section 4.5 has it
RefHash(left, right, seed, height, index) ==
    HashH(PRFsum(seed, RefAddr(height, index, 0)),
          XorWords(left, PRFsum(seed, RefAddr(height, index, 1))),
          XorWords(right, PRFsum(seed, RefAddr(height, index, 2))))

\* one level of the fold of section 4.4: pairs (2i, 2i+1) hashed with
\* (height, i), an odd last node promoted
RefLevel(nodes, seed, height) ==
    [i \in 1..((Len(nodes) + 1) \div 2) |->
        IF 2 * i <= Len(nodes)
        THEN RefHash(nodes[2 * i - 1], nodes[2 * i], seed, height, i - 1)
        ELSE nodes[2 * i - 1]] \o <<>>

\* the fold from level height on: <<node[0], the number of levels>>
RECURSIVE RefFold(_, _, _)
RefFold(nodes, seed, height) ==
    IF Len(nodes) > 1 THEN RefFold(RefLevel(nodes, seed, height), seed, height + 1)
    ELSE <<nodes[1], height>>

\* the least k with 2^k >= l
RECURSIVE CeilLog2(_)
CeilLog2(l) == IF l <= 1 THEN 0 ELSE 1 + CeilLog2((l + 1) \div 2)

\* C25: for every vector of wlen nodes (wlen = 67, and every wlen from 1
\* to MaxWlen) ltree returns what the fold of section 4.4 returns, and the
\* height counter, incremented once per level, ends at ceil(log2 wlen).
C25_LtreeIsFold ==
    (fold # <<>> /\ fold[1].done)
    => /\ <<fold[1].node, fold[1].addrs[adrHeight + 1]>>
              = RefFold(fold[1].pk, ParamSeeds.ps, 0)
       /\ fold[1].addrs[adrHeight + 1] = CeilLog2(Len(fold[1].pk))

\* ltree has returned for a vector of wlen = 67 different nodes: 7 levels,
\* with an odd node promoted at the first
C25_Witness ==
    /\ fold # <<>> /\ fold[1].done
    /\ Len(fold[1].pk) = wlen
    /\ fold[1].pk[1] # fold[1].pk[2]
    /\ fold[1].addrs[adrHeight + 1] = 7
    /\ fold[1].node[1] = "H"

TypeOK == panicked \in BOOLEAN
====
